---- MODULE Spec2Model ----
(***************************************************************************)
(* Model of scripts/option_pricing_analyzer.py: the analysis pipeline of   *)
(* OptionPricingAnalyzer (spot resolution, per-option oracle invocation,   *)
(* result records, portfolio summary).                                     *)
(*                                                                         *)
(* Python floats are modelled as exact rationals [num, den] in lowest      *)
(* terms; Python dicts as records (a key that the code never sets is not   *)
(* in the record's DOMAIN); Python None as NoneVal; text as a sequence of  *)
(* one-character strings.                                                  *)
(***************************************************************************)
EXTENDS Integers, Sequences, FiniteSets, TLC

VARIABLES
    pc,           \* position of the run inside analyze_csv / calculate_option_price
    format_type,  \* analyze_csv: 'portfolio' | 'option_chain'
    options,      \* analyze_csv: the parsed option list
    spot_arg,     \* analyze_csv: the spot_price parameter as passed by the caller
    rate,         \* analyze_csv: the risk_free_rate parameter
    spot_price,   \* analyze_csv: the local spot_price after resolution
    i,            \* analyze_csv: the loop index of "for i, option in enumerate(options)"
    calls,        \* the cmd of every subprocess.run so far, in order
    procs,        \* what every completed subprocess.run did, in order
    proc,         \* calculate_option_price: how the current subprocess.run ended
    calculation,  \* analyze_csv: the local calculation (calculate_option_price's return)
    results,      \* analyze_csv: the local list results
    summary,      \* analyze_csv: the local summary (_generate_summary's return)
    report,       \* the value analyze_csv returned
    file,         \* the CSV file: its name, its header row and its data rows
    today,        \* date.today()
    expiry_days,  \* the value _estimate_expiry_days returned
    exc,          \* the exception that left the function under way, if any
    bsm_arg,      \* main: args.bsm_executable
    existing,     \* the executable paths that exist on disk
    bsm_executable, \* self.bsm_executable
    output_format,  \* main: args.output
    printed,      \* output_results: the local output, as a list of lines
    exit_status,  \* the exit status of main, once it has ended
    log           \* the stages the run has been through, in order

\* The variables of main, the parsers and the formatters.
runVars == <<file, today, expiry_days, exc, bsm_arg, existing, bsm_executable,
             output_format, printed, exit_status, log>>

vars == <<pc, format_type, options, spot_arg, rate, spot_price, i, calls, procs, proc,
          calculation, results, summary, report, runVars>>

-----------------------------------------------------------------------------
(* Bounds of the model. *)

\* Longest parsed option list of a run of analyze_csv.
MaxOptions == 2
\* Longest option list handed to estimate_spot_price on its own.
MaxChain == 3
\* Longest result list handed to _generate_summary on its own.
MaxResults == 2

-----------------------------------------------------------------------------
(* Python values. *)

NoneVal == [none |-> TRUE]

\* main, the parsers and the formatters take no part.
RunIdle ==
    /\ file = NoneVal /\ today = NoneVal /\ expiry_days = NoneVal /\ exc = NoneVal
    /\ bsm_arg = NoneVal /\ existing = {} /\ bsm_executable = NoneVal
    /\ output_format = NoneVal /\ printed = NoneVal /\ exit_status = NoneVal
    /\ log = <<>>

Abs(n) == IF n < 0 THEN -n ELSE n

RECURSIVE GCD(_, _)
GCD(a, b) == IF b = 0 THEN a ELSE GCD(b, a % b)

\* The float n/d, as a rational in lowest terms with a positive denominator.
Rat(n, d) ==
    LET g == GCD(Abs(n), Abs(d))
        s == IF d < 0 THEN -1 ELSE 1
    IN  [num |-> (s * n) \div g, den |-> (s * d) \div g]

Zero == Rat(0, 1)
RAdd(a, b) == Rat(a.num * b.den + b.num * a.den, a.den * b.den)
RSub(a, b) == Rat(a.num * b.den - b.num * a.den, a.den * b.den)
RMul(a, b) == Rat(a.num * b.num, a.den * b.den)
RDiv(a, b) == Rat(a.num * b.den, a.den * b.num)
RAbs(a) == Rat(Abs(a.num), a.den)
RLt(a, b) == a.num * b.den < b.num * a.den
RGt(a, b) == RLt(b, a)

\* sum(f(x) for x in seq), left to right from 0 as Python's sum does.
RECURSIVE RSum(_)
RSum(seq) == IF seq = <<>> THEN Zero
             ELSE RAdd(RSum(SubSeq(seq, 1, Len(seq) - 1)), seq[Len(seq)])

Has(d, key) == key \in DOMAIN d

\* dict.get(key, default)
Get(d, key, default) == IF Has(d, key) THEN d[key] ELSE default

-----------------------------------------------------------------------------
(* Text and the regular expressions of calculate_option_price. *)

Digits == {"0", "1", "2", "3", "4", "5", "6", "7", "8", "9"}
Whitespace == {" ", "\n", "\t"}

DigitVal(c) == CASE c = "0" -> 0 [] c = "1" -> 1 [] c = "2" -> 2 [] c = "3" -> 3
                 [] c = "4" -> 4 [] c = "5" -> 5 [] c = "6" -> 6 [] c = "7" -> 7
                 [] c = "8" -> 8 [] c = "9" -> 9

\* The character classes [\d.] and [-\d.].
ClassDigitDot == Digits \cup {"."}
ClassSignDigitDot == Digits \cup {".", "-"}

\* A match object (with its group(1)), and the None of a failed search.
Match(group1) == [matched |-> TRUE, group1 |-> group1]
NoMatch == [matched |-> FALSE]
ValueError == [raised |-> "ValueError"]

\* text has the literal lit at index pos.
LitAt(text, pos, lit) ==
    /\ pos + Len(lit) - 1 <= Len(text)
    /\ \A k \in 1..Len(lit) : text[pos + k - 1] = lit[k]

\* End of the greedy run of characters of class starting at index pos.
RECURSIVE RunEnd(_, _, _)
RunEnd(text, pos, class) ==
    IF pos <= Len(text) /\ text[pos] \in class THEN RunEnd(text, pos + 1, class) ELSE pos

\* re.search(label + r'\s*([class]+)', text): the leftmost match, or
\* NoMatch. \s* and the class are disjoint, so the greedy match is the only one
\* at each start.
ReSearch(label, class, text) ==
    LET GroupStart(pos) == RunEnd(text, pos + Len(label), Whitespace)
        starts == {pos \in 1..Len(text) :
                     /\ LitAt(text, pos, label)
                     /\ RunEnd(text, GroupStart(pos), class) > GroupStart(pos)}
    IN  IF starts = {} THEN NoMatch
        ELSE LET pos == CHOOSE m \in starts : \A n \in starts : m <= n
                 j == GroupStart(pos)
             IN  Match(SubSeq(text, j, RunEnd(text, j, class) - 1))

RECURSIVE Pow10(_)
Pow10(k) == IF k = 0 THEN 1 ELSE 10 * Pow10(k - 1)

RECURSIVE DigitsValue(_)
DigitsValue(ds) == IF ds = <<>> THEN 0
                   ELSE 10 * DigitsValue(SubSeq(ds, 1, Len(ds) - 1)) + DigitVal(ds[Len(ds)])

\* float(tok) for a token over [-\d.]: an optional leading sign, then digits
\* with at most one point and at least one digit; anything else raises.
FloatOf(tok) ==
    LET neg == Len(tok) > 0 /\ tok[1] = "-"
        body == IF neg THEN Tail(tok) ELSE tok
        IsDigit(c) == c \in Digits
        ds == SelectSeq(body, IsDigit)
        points == {pos \in 1..Len(body) : body[pos] = "."}
        frac == IF points = {} THEN 0
                ELSE Len(body) - (CHOOSE p \in points : TRUE)
    IN  IF \/ \E pos \in 1..Len(body) : body[pos] \notin ClassDigitDot
           \/ Cardinality(points) > 1
           \/ ds = <<>>
        THEN ValueError
        ELSE Rat((IF neg THEN -1 ELSE 1) * DigitsValue(ds), Pow10(frac))

PriceLabel == <<"P", "r", "i", "c", "e", ":">>
DeltaLabel == <<"D", "e", "l", "t", "a", ":">>
GammaLabel == <<"G", "a", "m", "m", "a", ":">>
VegaLabel  == <<"V", "e", "g", "a", ":">>
ThetaLabel == <<"T", "h", "e", "t", "a", ":">>

-----------------------------------------------------------------------------
(* calculate_option_price and _default_option_result. *)

_default_option_result ==
    [theoretical_price |-> Zero, delta |-> Zero, gamma |-> Zero, vega |-> Zero,
     theta |-> Zero, calculation_success |-> FALSE]

\* float(m.group(1)) if m else 0.0
FieldValue(m) == IF m.matched THEN FloatOf(m.group1) ELSE Zero

\* calculate_option_price, if a field that is not matched failed the whole result.
calculate_option_price_AnyMissingFails(run) ==
    IF run.kind = "timeout" THEN _default_option_result
    ELSE IF run.returncode = 0
    THEN LET output == run.stdout
             ms == {ReSearch(PriceLabel, ClassDigitDot, output),
                    ReSearch(DeltaLabel, ClassSignDigitDot, output),
                    ReSearch(GammaLabel, ClassDigitDot, output),
                    ReSearch(VegaLabel, ClassDigitDot, output),
                    ReSearch(ThetaLabel, ClassSignDigitDot, output)}
         IN  IF NoMatch \in ms \/ \E m \in ms : FloatOf(m.group1) = ValueError
             THEN _default_option_result
             ELSE [theoretical_price |->
                       FloatOf(ReSearch(PriceLabel, ClassDigitDot, output).group1),
                   delta |-> FloatOf(ReSearch(DeltaLabel, ClassSignDigitDot, output).group1),
                   gamma |-> FloatOf(ReSearch(GammaLabel, ClassDigitDot, output).group1),
                   vega |-> FloatOf(ReSearch(VegaLabel, ClassDigitDot, output).group1),
                   theta |-> FloatOf(ReSearch(ThetaLabel, ClassSignDigitDot, output).group1),
                   calculation_success |-> TRUE]
    ELSE _default_option_result

\* The body of calculate_option_price once subprocess.run has ended as run:
\* run.kind is "timeout" (TimeoutExpired raised) or "exit" (run returned, with
\* run.returncode and run.stdout). A ValueError of a float() is caught and
\* gives the default result.
calculate_option_price(run) ==
    IF run.kind = "timeout" THEN _default_option_result
    ELSE IF run.returncode = 0
    THEN LET output == run.stdout
             price == FieldValue(ReSearch(PriceLabel, ClassDigitDot, output))
             delta == FieldValue(ReSearch(DeltaLabel, ClassSignDigitDot, output))
             gamma == FieldValue(ReSearch(GammaLabel, ClassDigitDot, output))
             vega  == FieldValue(ReSearch(VegaLabel, ClassDigitDot, output))
             theta == FieldValue(ReSearch(ThetaLabel, ClassSignDigitDot, output))
         IN  IF ValueError \in {price, delta, gamma, vega, theta}
             THEN _default_option_result
             ELSE [theoretical_price |-> price, delta |-> delta, gamma |-> gamma,
                   vega |-> vega, theta |-> theta, calculation_success |-> TRUE]
    ELSE _default_option_result

-----------------------------------------------------------------------------
(* The pricing oracle's responses: what subprocess.run can hand back. *)

DigitChar(d) == CASE d = 0 -> "0" [] d = 1 -> "1" [] d = 2 -> "2" [] d = 3 -> "3"
                  [] d = 4 -> "4" [] d = 5 -> "5" [] d = 6 -> "6" [] d = 7 -> "7"
                  [] d = 8 -> "8" [] d = 9 -> "9"

RECURSIVE IntText(_)
IntText(n) == IF n < 10 THEN <<DigitChar(n)>>
              ELSE IntText(n \div 10) \o <<DigitChar(n % 10)>>

\* A number with a denominator dividing 100, printed with two decimals.
NumText(v) ==
    LET h == Abs(v.num) * (100 \div v.den)
    IN  (IF v.num < 0 THEN <<"-">> ELSE <<>>) \o IntText(h \div 100) \o <<".">>
        \o <<DigitChar((h \div 10) % 10), DigitChar(h % 10)>>

Fields == {"theoretical_price", "delta", "gamma", "vega", "theta"}

Label(f) == CASE f = "theoretical_price" -> PriceLabel [] f = "delta" -> DeltaLabel
              [] f = "gamma" -> GammaLabel [] f = "vega" -> VegaLabel
              [] f = "theta" -> ThetaLabel

\* The field names of the structured payload.
JsonKey(f) == CASE f = "theoretical_price" -> <<"p", "r", "i", "c", "e">>
                [] f = "delta" -> <<"d", "e", "l", "t", "a">>
                [] f = "gamma" -> <<"g", "a", "m", "m", "a">>
                [] f = "vega" -> <<"v", "e", "g", "a">>
                [] f = "theta" -> <<"t", "h", "e", "t", "a">>

\* What the oracle does with one field of its free-text response: leaves the
\* line out, prints the number, or prints something that is no number.
Absent == [k |-> "absent"]
Num(n, d) == [k |-> "num", v |-> Rat(n, d)]
Bad(text) == [k |-> "bad", text |-> text]

BadTexts == {<<"1", ".", "2", ".", "3">>, <<"-">>}

FieldPlans(f) ==
    {Absent} \cup {Bad(t) : t \in BadTexts} \cup
    CASE f = "theoretical_price" -> {Num(4, 1)}
      [] f = "delta" -> {Num(52, 100), Num(-48, 100)}
      [] f = "gamma" -> {Num(3, 100)}
      [] f = "vega" -> {Num(12, 1)}
      [] f = "theta" -> {Num(-5, 1)}

TextLine(f, plan) ==
    CASE plan.k = "absent" -> <<>>
      [] plan.k = "num" -> Label(f) \o <<" ">> \o NumText(plan.v) \o <<"\n">>
      [] plan.k = "bad" -> Label(f) \o <<" ">> \o plan.text \o <<"\n">>

\* Free text: one line 'Price: <number>', 'Delta: <number>', ... per field.
TextResponse(plan) ==
    TextLine("theoretical_price", plan.theoretical_price) \o TextLine("delta", plan.delta)
    \o TextLine("gamma", plan.gamma) \o TextLine("vega", plan.vega)
    \o TextLine("theta", plan.theta)

JsonMember(f, v) == <<"\"">> \o JsonKey(f) \o <<"\"", ":", " ">> \o NumText(v)

\* The structured payload {"price": .., "delta": .., "gamma": .., "vega": .., "theta": ..}.
JsonResponse(plan) ==
    <<"{">> \o JsonMember("theoretical_price", plan.theoretical_price.v) \o <<",", " ">>
    \o JsonMember("delta", plan.delta.v) \o <<",", " ">>
    \o JsonMember("gamma", plan.gamma.v) \o <<",", " ">>
    \o JsonMember("vega", plan.vega.v) \o <<",", " ">>
    \o JsonMember("theta", plan.theta.v) \o <<"}">>

TextPlans == [theoretical_price : FieldPlans("theoretical_price"),
              delta : FieldPlans("delta"), gamma : FieldPlans("gamma"),
              vega : FieldPlans("vega"), theta : FieldPlans("theta")]
FullPlans == {plan \in TextPlans : \A f \in Fields : plan[f].k = "num"}
NoPlan == [theoretical_price |-> Absent, delta |-> Absent, gamma |-> Absent,
           vega |-> Absent, theta |-> Absent]

Garbage == <<"o", "o", "p", "s", "\n">>

Timeout == [kind |-> "timeout"]
Exit(code, style, plan, stdout) ==
    [kind |-> "exit", returncode |-> code, style |-> style, plan |-> plan, stdout |-> stdout]

\* Every way one subprocess.run of the oracle ends in the model. style and plan
\* record what the oracle meant to say; the code reads returncode and stdout.
ProcOutcomes ==
    {Timeout}
    \cup {Exit(0, "text", plan, TextResponse(plan)) : plan \in TextPlans}
    \cup {Exit(0, "json", plan, JsonResponse(plan)) : plan \in FullPlans}
    \cup {Exit(0, "text", NoPlan, Garbage)}
    \cup {Exit(1, "text", plan, TextResponse(plan)) : plan \in FullPlans \cup {NoPlan}}

-----------------------------------------------------------------------------
(* calculate_option_price on its own: one oracle response, one result. *)

OracleInit ==
    /\ RunIdle
    /\ pc = "oracle_call"
    /\ proc \in ProcOutcomes
    /\ calculation = NoneVal
    /\ format_type = NoneVal /\ options = <<>> /\ spot_arg = NoneVal /\ rate = NoneVal
    /\ spot_price = NoneVal /\ i = 0 /\ calls = <<>> /\ procs = <<>> /\ results = <<>>
    /\ summary = NoneVal /\ report = NoneVal

OracleCalc ==
    /\ UNCHANGED runVars
    /\ pc = "oracle_call"
    /\ calculation' = calculate_option_price(proc)
    /\ pc' = "oracle_done"
    /\ UNCHANGED <<format_type, options, spot_arg, rate, spot_price, i, calls, procs, proc,
                   results, summary, report>>

OracleNext == OracleCalc

SpecOracle == OracleInit /\ [][OracleNext]_vars

-----------------------------------------------------------------------------
(* Claims about calculate_option_price, under SpecOracle. *)

Contains(text, lit) == \E pos \in 1..Len(text) : LitAt(text, pos, lit)

\* The response names none of the five fields, in either spelling.
NoExpectedField(text) ==
    \A f \in Fields : ~Contains(text, Label(f)) /\ ~Contains(text, JsonKey(f))

OracleFailed(run) ==
    \/ run.kind = "timeout"
    \/ run.kind = "exit" /\ run.returncode # 0
    \/ run.kind = "exit" /\ run.returncode = 0 /\ NoExpectedField(run.stdout)

FieldsOf(calc) == [f \in Fields |-> calc[f]]
PlannedValues(plan) == [f \in Fields |-> plan[f].v]
AllZero == [f \in Fields |-> Zero]

\* C2: on a timeout, a non-zero exit status, or exit status 0 with a response
\* that carries none of the expected fields, calculate_option_price returns all
\* five numbers 0.0 with calculation_success false (and raises nothing).
C2_FailureGivesDefault ==
    (pc = "oracle_done" /\ OracleFailed(proc))
        => /\ FieldsOf(calculation) = AllZero
           /\ calculation.calculation_success = FALSE

\* The part of C2 the code keeps: timeout and non-zero exit give the default result.
C2_TimeoutOrExitCodeGivesDefault ==
    (pc = "oracle_done" /\ (proc.kind = "timeout" \/ proc.returncode # 0))
        => calculation = _default_option_result

Class(f) == IF f \in {"delta", "theta"} THEN ClassSignDigitDot ELSE ClassDigitDot

\* What a field's line is to the field's pattern: not there at all or not
\* matched by it (Unmatched), or matched with a text that is no number (Malformed).
Unmatched(f, fp) == fp.k = "absent" \/ (fp.k = "bad" /\ fp.text[1] \notin Class(f))
Malformed(f, fp) == fp.k = "bad" /\ fp.text[1] \in Class(f)

TextExitZero == pc = "oracle_done" /\ proc.kind = "exit" /\ proc.returncode = 0
                /\ proc.style = "text"

\* C3 as stated: with exit status 0, each missing, unmatched or bad field is
\* 0.0, the others keep their values, and calculation_success is true.
C3_AnyBadFieldDefaultsAlone ==
    TextExitZero =>
        /\ calculation.calculation_success = TRUE
        /\ \A f \in Fields :
             IF proc.plan[f].k = "num" THEN calculation[f] = proc.plan[f].v
             ELSE calculation[f] = Zero

\* C3 amended: with exit status 0 and no field whose matched text fails float(),
\* each missing or unmatched field is 0.0, the others keep their values and
\* calculation_success is true; a field whose matched text is no number (as in
\* 'Price: 1.2.3' or 'Delta: -') makes the whole result the zeroed failure result.
C3_MissingFieldDefaultsAlone ==
    TextExitZero =>
        IF \E f \in Fields : Malformed(f, proc.plan[f])
        THEN calculation = _default_option_result
        ELSE /\ calculation.calculation_success = TRUE
             /\ \A f \in Fields :
                  /\ Unmatched(f, proc.plan[f]) => calculation[f] = Zero
                  /\ proc.plan[f].k = "num" => calculation[f] = proc.plan[f].v

\* Some fields missing, the others extracted, and the result still a success.
C3_Witness ==
    /\ TextExitZero
    /\ proc.plan.theoretical_price.k = "num"
    /\ proc.plan.delta.k = "absent"
    /\ proc.plan.gamma = Bad(<<"-">>)
    /\ proc.plan.theta.k = "num"
    /\ calculation.calculation_success = TRUE
    /\ calculation.theoretical_price = Rat(4, 1)
    /\ calculation.delta = Zero
    /\ calculation.theta = Rat(-5, 1)

\* C4: an exit-0 response that carries all five values, as free text or as a
\* structured payload, gives exactly those five values with calculation_success true.
C4_FiveValuesExtracted ==
    (pc = "oracle_done" /\ proc.kind = "exit" /\ proc.returncode = 0
     /\ \A f \in Fields : proc.plan[f].k = "num")
        => /\ FieldsOf(calculation) = PlannedValues(proc.plan)
           /\ calculation.calculation_success = TRUE

\* The part of C4 the code keeps: the free-text response.
C4_TextValuesExtracted ==
    (TextExitZero /\ \A f \in Fields : proc.plan[f].k = "num")
        => /\ FieldsOf(calculation) = PlannedValues(proc.plan)
           /\ calculation.calculation_success = TRUE

-----------------------------------------------------------------------------
(* estimate_spot_price, the result records and _generate_summary. *)

One == Rat(1, 1)
Hundred == Rat(100, 1)
DefaultSpot == Rat(23000, 1)

IsCall(opt) == opt.option_type = "call"
IsPut(opt) == opt.option_type = "put"

Strikes(opts) == [k \in 1..Len(opts) |-> opts[k].strike]

\* estimate_spot_price, if it averaged the strikes of the calls only.
estimate_spot_price_CallsOnly(opts) ==
    IF opts = <<>> THEN DefaultSpot
    ELSE LET call_strikes == SelectSeq(opts, IsCall)
             put_strikes == SelectSeq(opts, IsPut)
         IN  IF call_strikes = <<>> \/ put_strikes = <<>> THEN DefaultSpot
             ELSE RDiv(RSum(Strikes(call_strikes)), Rat(Len(call_strikes), 1))

estimate_spot_price(opts) ==
    IF opts = <<>> THEN DefaultSpot
    ELSE LET call_strikes == SelectSeq(opts, IsCall)
             put_strikes == SelectSeq(opts, IsPut)
             all_strikes == Strikes(opts)
         IN  IF call_strikes = <<>> \/ put_strikes = <<>> THEN DefaultSpot
             ELSE IF all_strikes # <<>>
                  THEN RDiv(RSum(all_strikes), Rat(Len(all_strikes), 1))
                  ELSE DefaultSpot

\* str(x) of a command-line argument: written out, never read back here.
Str(x) == <<"str", x>>

\* The cmd list of calculate_option_price (the executable and 'price' left out).
Cmd(option, spot, r) ==
    [spot |-> Str(spot), strike |-> Str(option.strike), rate |-> Str(r),
     time |-> Str(RDiv(option.expiry_days, Rat(365, 1))),
     vol |-> Str(option.implied_volatility), type |-> option.option_type]

\* PriceDifferencePct, if the factor 100 were lost.
PriceDifferencePct_Fraction(diff, theoretical_price) ==
    IF RGt(theoretical_price, Zero) THEN RDiv(diff, theoretical_price) ELSE Zero

\* (price_difference / theoretical_price * 100) if theoretical_price > 0 else 0
PriceDifferencePct(diff, theoretical_price) ==
    IF RGt(theoretical_price, Zero)
    THEN RMul(RDiv(diff, theoretical_price), Hundred)
    ELSE Zero

\* The result dict of one option, with the market-versus-theoretical keys.
BuildResult(option, spot, calc) ==
    LET result == [symbol |-> Get(option, "symbol", "UNKNOWN"),
                   option_type |-> option.option_type,
                   strike |-> option.strike,
                   spot_price |-> spot,
                   expiry_days |-> option.expiry_days,
                   implied_volatility |-> option.implied_volatility,
                   market_price |-> Get(option, "market_price", NoneVal),
                   position |-> Get(option, "position", One),
                   theoretical_price |-> calc.theoretical_price,
                   delta |-> calc.delta, gamma |-> calc.gamma, vega |-> calc.vega,
                   theta |-> calc.theta,
                   calculation_success |-> calc.calculation_success]
        diff == RSub(result.market_price, result.theoretical_price)
    IN  IF result.market_price # NoneVal
        THEN result @@ [price_difference |-> diff,
                        price_difference_pct |->
                            PriceDifferencePct(diff, result.theoretical_price)]
        ELSE result

\* AppendResult, if the record of a failed calculation were dropped.
AppendResult_DropFailed(res, result) ==
    IF result.calculation_success THEN Append(res, result) ELSE res

\* results.append(result)
AppendResult(res, result) == Append(res, result)

Succeeded(r) == r.calculation_success
HasMarketPrice(r) == Get(r, "market_price", NoneVal) # NoneVal
\* Overpriced, if a zero difference counted as overpriced.
Overpriced_OrEqual(r) == ~RLt(r.price_difference, Zero)

Overpriced(r) == RGt(r.price_difference, Zero)
Underpriced(r) == RLt(r.price_difference, Zero)

\* sum(r[greek] * r['position'] for r in rs)
Weighted(rs, greek) == RSum([k \in 1..Len(rs) |-> RMul(rs[k][greek], rs[k].position)])

\* SuccessfulCalcs, if failed calculations were kept.
SuccessfulCalcs_All(res) == res

\* [r for r in results if r['calculation_success']]
SuccessfulCalcs(res) == SelectSeq(res, Succeeded)

_generate_summary(res, spot) ==
    LET successful_calcs == SuccessfulCalcs(res)
        total_delta == Weighted(successful_calcs, "delta")
        total_gamma == Weighted(successful_calcs, "gamma")
        total_vega == Weighted(successful_calcs, "vega")
        total_theta == Weighted(successful_calcs, "theta")
        portfolio_value == Weighted(successful_calcs, "theoretical_price")
        mispriced_options == SelectSeq(successful_calcs, HasMarketPrice)
        avg_price_diff ==
            IF mispriced_options # <<>>
            THEN RDiv(RSum([k \in 1..Len(mispriced_options) |->
                               RAbs(mispriced_options[k].price_difference_pct)]),
                      Rat(Len(mispriced_options), 1))
            ELSE Zero
    IN  IF successful_calcs = <<>> THEN [error |-> "No successful calculations"]
        ELSE [portfolio_metrics |->
                 [total_value |-> portfolio_value,
                  net_delta |-> total_delta,
                  net_gamma |-> total_gamma,
                  net_vega |-> total_vega,
                  net_theta |-> total_theta,
                  delta_adjusted_value |->
                      RAdd(portfolio_value, RMul(RMul(total_delta, spot), Rat(1, 100)))],
              market_analysis |->
                 [options_with_market_prices |-> Len(mispriced_options),
                  avg_price_difference_pct |-> avg_price_diff,
                  overpriced_count |-> Len(SelectSeq(mispriced_options, Overpriced)),
                  underpriced_count |-> Len(SelectSeq(mispriced_options, Underpriced))],
              risk_metrics |->
                 [portfolio_delta_risk |-> RMul(RMul(RAbs(total_delta), spot), Rat(1, 100)),
                  portfolio_gamma_risk |->
                      RMul(RMul(RMul(RAbs(total_gamma), spot), spot), Rat(1, 10000)),
                  portfolio_vega_risk |-> RMul(RAbs(total_vega), Rat(1, 100)),
                  portfolio_theta_decay |-> total_theta]]

-----------------------------------------------------------------------------
(* analyze_csv from the parsed option list on. *)

\* A record as parse_portfolio_csv builds it (expiry 0.25 years, volatility 0.2).
PortfolioOption(position, spot, strike, type) ==
    [symbol |-> "AAPL", position |-> Rat(position, 1), spot_price |-> Rat(spot, 1),
     strike |-> Rat(strike, 1), expiry_days |-> RMul(Rat(1, 4), Rat(365, 1)),
     implied_volatility |-> Rat(1, 5), option_type |-> type, market_price |-> NoneVal]

\* A record as parse_option_chain_csv builds it (default volatility and expiry).
ChainOption(strike, type, ltp) ==
    [symbol |-> "NIFTY", strike |-> Rat(strike, 1), option_type |-> type,
     market_price |-> Rat(ltp, 1), implied_volatility |-> Rat(1, 5),
     expiry_days |-> Rat(30, 1)]

PortfolioOptions == {PortfolioOption(1, 100, 100, "call"),
                     PortfolioOption(10, 105, 110, "put"),
                     PortfolioOption(2, 100, 90, "call"),
                     PortfolioOption(-3, 95, 90, "put")}

ChainOptions == {ChainOption(90, "call", 3), ChainOption(110, "put", 5),
                 ChainOption(110, "call", 4), ChainOption(90, "put", 4)}

SeqsUpTo(S, n) == UNION {[1..k -> S] : k \in 0..n}

ParsedLists(fmt) == IF fmt = "portfolio" THEN SeqsUpTo(PortfolioOptions, MaxOptions)
                    ELSE SeqsUpTo(ChainOptions, MaxOptions)

\* The caller's spot_price argument: none, 0, or 100.
SpotArgs == {NoneVal, Zero, Hundred}

FullText == [theoretical_price |-> Num(4, 1), delta |-> Num(52, 100),
             gamma |-> Num(3, 100), vega |-> Num(12, 1), theta |-> Num(-5, 1)]
BadDelta == [NoPlan EXCEPT !.theoretical_price = Num(4, 1), !.delta = Bad(<<"-">>)]

\* The oracle responses of a run: timeout, non-zero exit, a full free-text
\* response, a response without any field, a response with a malformed field.
PipelineOutcomes ==
    {Timeout,
     Exit(1, "text", NoPlan, TextResponse(NoPlan)),
     Exit(0, "text", FullText, TextResponse(FullText)),
     Exit(0, "text", NoPlan, Garbage),
     Exit(0, "text", BadDelta, TextResponse(BadDelta))}

Init ==
    /\ RunIdle
    /\ pc = "analyze_csv"
    /\ format_type \in {"portfolio", "option_chain"}
    /\ options \in ParsedLists(format_type)
    /\ spot_arg \in SpotArgs
    /\ spot_price = spot_arg
    /\ rate = Rat(5, 100)
    /\ i = 0 /\ calls = <<>> /\ procs = <<>> /\ proc = NoneVal
    /\ calculation = NoneVal /\ results = <<>> /\ summary = NoneVal /\ report = NoneVal

\* NoValidOptionsReport, if the analysis went on over the empty list.
NoValidOptionsReport_Analysed ==
    [metadata |-> [total_options |-> 0], options |-> <<>>,
     summary |-> [error |-> "No successful calculations"]]

\* {'error': 'No valid options found in CSV file'}
NoValidOptionsReport == [error |-> "No valid options found in CSV file"]

\* "if not options: return {'error': ...}"
NoValidOptions ==
    /\ UNCHANGED runVars
    /\ pc = "analyze_csv"
    /\ options = <<>>
    /\ report' = NoValidOptionsReport
    /\ pc' = "done"
    /\ UNCHANGED <<format_type, options, spot_arg, rate, spot_price, i, calls, procs,
                   proc, calculation, results, summary>>

\* ResolvedSpot, if the test were "if not spot_price".
ResolvedSpot_Falsy(spot, fmt, opts) ==
    IF spot = NoneVal \/ spot = Zero
    THEN IF fmt = "portfolio" THEN Get(opts[1], "spot_price", DefaultSpot)
         ELSE estimate_spot_price(opts)
    ELSE spot

\* "if spot_price is None: ..."
ResolvedSpot(spot, fmt, opts) ==
    IF spot = NoneVal
    THEN IF fmt = "portfolio" THEN Get(opts[1], "spot_price", DefaultSpot)
         ELSE estimate_spot_price(opts)
    ELSE spot

ResolveSpot ==
    /\ UNCHANGED runVars
    /\ pc = "analyze_csv"
    /\ options # <<>>
    /\ spot_price' = ResolvedSpot(spot_price, format_type, options)
    /\ results' = <<>>
    /\ i' = 0
    /\ pc' = "loop"
    /\ UNCHANGED <<format_type, options, spot_arg, rate, calls, procs, proc, calculation,
                   summary, report>>

\* The loop reaches options[i] and calculate_option_price starts subprocess.run.
Dispatch ==
    /\ UNCHANGED runVars
    /\ pc = "loop"
    /\ i < Len(options)
    /\ calls' = Append(calls, Cmd(options[i + 1], spot_price, rate))
    /\ pc' = "oracle"
    /\ UNCHANGED <<format_type, options, spot_arg, rate, spot_price, i, procs, proc,
                   calculation, results, summary, report>>

\* subprocess.run ends; the rest of the loop body runs up to results.append.
Complete ==
    /\ UNCHANGED runVars
    /\ pc = "oracle"
    /\ \E run \in PipelineOutcomes :
         /\ proc' = run
         /\ procs' = Append(procs, run)
         /\ calculation' = calculate_option_price(run)
         /\ results' = AppendResult(results,
                                    BuildResult(options[i + 1], spot_price, calculation'))
    /\ i' = i + 1
    /\ pc' = "loop"
    /\ UNCHANGED <<format_type, options, spot_arg, rate, spot_price, calls, summary, report>>

\* The loop is over: the summary and the returned report (metadata without
\* the file name and the clock reading).
Summarise ==
    /\ UNCHANGED runVars
    /\ pc = "loop"
    /\ i = Len(options)
    /\ summary' = _generate_summary(results, spot_price)
    /\ report' = [metadata |-> [format_type |-> format_type,
                                total_options |-> Len(results),
                                spot_price |-> spot_price,
                                risk_free_rate |-> rate],
                  options |-> results,
                  summary |-> summary']
    /\ pc' = "done"
    /\ UNCHANGED <<format_type, options, spot_arg, rate, spot_price, i, calls, procs,
                   proc, calculation, results>>

Next == NoValidOptions \/ ResolveSpot \/ Dispatch \/ Complete \/ Summarise

Spec == Init /\ [][Next]_vars

-----------------------------------------------------------------------------
(* estimate_spot_price on its own. *)

SpotOptions == {ChainOption(strike, type, 4) : strike \in {90, 100, 110},
                                               type \in {"call", "put"}}

SpotInit ==
    /\ RunIdle
    /\ pc = "estimate_call"
    /\ options \in SeqsUpTo(SpotOptions, MaxChain)
    /\ format_type = "option_chain" /\ spot_arg = NoneVal /\ spot_price = NoneVal
    /\ rate = NoneVal /\ i = 0 /\ calls = <<>> /\ procs = <<>> /\ proc = NoneVal
    /\ calculation = NoneVal /\ results = <<>> /\ summary = NoneVal /\ report = NoneVal

EstimateSpot ==
    /\ UNCHANGED runVars
    /\ pc = "estimate_call"
    /\ spot_price' = estimate_spot_price(options)
    /\ pc' = "estimate_done"
    /\ UNCHANGED <<format_type, options, spot_arg, rate, i, calls, procs, proc,
                   calculation, results, summary, report>>

SpotNext == EstimateSpot

SpecSpot == SpotInit /\ [][SpotNext]_vars

-----------------------------------------------------------------------------
(* _generate_summary on its own, on any list of result records. *)

\* A failed calculation that still carries numbers.
StaleFailure == [theoretical_price |-> Rat(4, 1), delta |-> Rat(1, 2),
                 gamma |-> Rat(3, 100), vega |-> Rat(12, 1), theta |-> Rat(-5, 1),
                 calculation_success |-> FALSE]

HalfDelta == [FullText EXCEPT !.delta = Num(50, 100)]

SummaryCalcs ==
    {calculate_option_price(Exit(0, "text", HalfDelta, TextResponse(HalfDelta))),
     calculate_option_price(Exit(0, "text", NoPlan, Garbage)),
     _default_option_result,
     StaleFailure}

SummaryResults == {BuildResult(opt, Hundred, calc) :
                       opt \in PortfolioOptions \cup ChainOptions, calc \in SummaryCalcs}

SummaryInit ==
    /\ RunIdle
    /\ pc = "summary_call"
    /\ results \in SeqsUpTo(SummaryResults, MaxResults)
    /\ spot_price = Hundred
    /\ format_type = NoneVal /\ options = <<>> /\ spot_arg = NoneVal
    /\ rate = NoneVal /\ i = 0 /\ calls = <<>> /\ procs = <<>> /\ proc = NoneVal
    /\ calculation = NoneVal /\ summary = NoneVal /\ report = NoneVal

GenerateSummary ==
    /\ UNCHANGED runVars
    /\ pc = "summary_call"
    /\ summary' = _generate_summary(results, spot_price)
    /\ pc' = "summary_done"
    /\ UNCHANGED <<format_type, options, spot_arg, rate, spot_price, i, calls, procs,
                   proc, calculation, results, report>>

SummaryNext == GenerateSummary

SpecSummary == SummaryInit /\ [][SummaryNext]_vars

-----------------------------------------------------------------------------
(* Claims about analyze_csv, under Spec. *)

\* The sum of f over the index set S.
RECURSIVE SumOver(_, _)
SumOver(S, f) == IF S = {} THEN Zero
                 ELSE LET x == CHOOSE y \in S : TRUE
                      IN  RAdd(f[x], SumOver(S \ {x}, f))

SameOption(r, opt) ==
    /\ r.symbol = opt.symbol
    /\ r.option_type = opt.option_type
    /\ r.strike = opt.strike
    /\ r.expiry_days = opt.expiry_days
    /\ r.implied_volatility = opt.implied_volatility

RunFailed(run) == run.kind = "timeout" \/ run.returncode # 0

\* C1: the oracle is invoked once per option in input order, one invocation
\* ending before the next starts; every ended invocation, failed or not, leaves
\* its record, in input order; the summary and the report exist only once every
\* option has been through the oracle, and the report lists one record per option.
C1_SequentialOneResultPerOption ==
    /\ Len(results) = Len(procs)
    /\ Len(calls) = Len(procs) + (IF pc = "oracle" THEN 1 ELSE 0)
    /\ Len(calls) <= Len(options)
    /\ \A k \in 1..Len(calls) :
         /\ calls[k].strike = Str(options[k].strike)
         /\ calls[k].type = options[k].option_type
    /\ \A k \in 1..Len(results) :
         /\ SameOption(results[k], options[k])
         /\ RunFailed(procs[k]) => results[k].calculation_success = FALSE
    /\ summary # NoneVal => Len(procs) = Len(options)
    /\ (pc = "done" /\ options # <<>>) =>
         /\ Len(calls) = Len(options)
         /\ Len(report.options) = Len(options)
         /\ report.options = results
         /\ report.summary = summary /\ summary # NoneVal

\* A failed invocation followed by a successful one: both records are listed.
C1_Witness ==
    /\ pc = "done"
    /\ Len(options) = 2
    /\ procs[1].kind = "timeout"
    /\ procs[2].kind = "exit" /\ procs[2].returncode = 0
    /\ Len(report.options) = 2
    /\ report.options[1].calculation_success = FALSE
    /\ report.options[2].calculation_success = TRUE

\* C7: the summary is the error marker, and nothing else, exactly when no
\* result succeeded; otherwise it has the three metric groups and no error.
C7_ErrorMarkerIffNoSuccess ==
    (pc = "done" /\ options # <<>>) =>
        IF \A k \in 1..Len(results) : results[k].calculation_success = FALSE
        THEN DOMAIN report.summary = {"error"}
        ELSE DOMAIN report.summary = {"portfolio_metrics", "market_analysis", "risk_metrics"}

C7_Witness ==
    /\ pc = "done"
    /\ Len(results) = 2
    /\ \A k \in 1..2 : results[k].calculation_success = FALSE
    /\ DOMAIN report.summary = {"error"}

\* C8 as stated: the two difference fields are there when market_price is
\* present and theoretical_price is not 0, and absent otherwise.
C8_DifferenceAbsentAtZeroPrice ==
    \A k \in 1..Len(results) :
        LET r == results[k]
            market == Get(options[k], "market_price", NoneVal)
        IN  IF market # NoneVal /\ r.theoretical_price # Zero
            THEN /\ Has(r, "price_difference") /\ Has(r, "price_difference_pct")
                 /\ r.price_difference = RSub(market, r.theoretical_price)
                 /\ RMul(r.price_difference_pct, r.theoretical_price)
                        = RMul(r.price_difference, Hundred)
            ELSE ~Has(r, "price_difference") /\ ~Has(r, "price_difference_pct")

\* C8 amended: when market_price is present, price_difference is market_price -
\* theoretical_price, and price_difference_pct is price_difference /
\* theoretical_price * 100 if theoretical_price > 0 and 0 if it is 0 (as after
\* every failed oracle call); both are absent only when market_price is absent.
C8_DifferenceFields ==
    \A k \in 1..Len(results) :
        LET r == results[k]
            market == Get(options[k], "market_price", NoneVal)
        IN  IF market # NoneVal
            THEN /\ Has(r, "price_difference") /\ Has(r, "price_difference_pct")
                 /\ r.price_difference = RSub(market, r.theoretical_price)
                 /\ ~RLt(r.theoretical_price, Zero)
                 /\ RGt(r.theoretical_price, Zero) =>
                        RMul(r.price_difference_pct, r.theoretical_price)
                            = RMul(r.price_difference, Hundred)
                 /\ r.theoretical_price = Zero => r.price_difference_pct = Zero
            ELSE ~Has(r, "price_difference") /\ ~Has(r, "price_difference_pct")

\* Market price 3 against a theoretical price 4, and a market price with a
\* failed calculation.
C8_Witness ==
    /\ Len(results) = 2
    /\ results[1].market_price = Rat(3, 1)
    /\ results[1].theoretical_price = Rat(4, 1)
    /\ results[1].price_difference = Rat(-1, 1)
    /\ results[1].price_difference_pct = Rat(-25, 1)
    /\ results[2].market_price = Rat(5, 1)
    /\ results[2].calculation_success = FALSE
    /\ results[2].price_difference = Rat(5, 1)
    /\ results[2].price_difference_pct = Zero

ExpectedSpot ==
    IF spot_arg # NoneVal THEN spot_arg
    ELSE IF format_type = "portfolio" THEN options[1].spot_price
    ELSE estimate_spot_price(options)

\* C10: the resolved spot is the supplied one if any (0 included), else the
\* first record's spot_price (portfolio) or estimate_spot_price's result
\* (option chain); every oracle invocation, every result record and the
\* metadata carry that one value.
C10_OneResolvedSpot ==
    (pc \in {"loop", "oracle", "done"} /\ options # <<>>) =>
        /\ spot_price = ExpectedSpot
        /\ \A k \in 1..Len(calls) : calls[k].spot = Str(ExpectedSpot)
        /\ \A k \in 1..Len(results) : results[k].spot_price = ExpectedSpot
        /\ pc = "done" => report.metadata.spot_price = ExpectedSpot

\* Two portfolio rows with different spots and no supplied spot.
C10_Witness ==
    /\ pc = "done"
    /\ format_type = "portfolio"
    /\ spot_arg = NoneVal
    /\ Len(options) = 2
    /\ options[1].spot_price = Hundred
    /\ options[2].spot_price = Rat(105, 1)
    /\ calls[2].spot = Str(Hundred)
    /\ report.options[2].spot_price = Hundred
    /\ report.metadata.spot_price = Hundred

\* A supplied spot of 0 is used as it is.
C10_WitnessZero ==
    /\ pc = "done"
    /\ options # <<>>
    /\ spot_arg = Zero
    /\ report.metadata.spot_price = Zero
    /\ calls[1].spot = Str(Zero)

-----------------------------------------------------------------------------
(* Claims about estimate_spot_price, under SpecSpot. *)

StrikeSum(opts) == SumOver(1..Len(opts), [k \in 1..Len(opts) |-> opts[k].strike])
IsMeanOfStrikes(x, opts) == RMul(x, Rat(Len(opts), 1)) = StrikeSum(opts)

\* C9 as stated: the mean of the strikes for every non-empty list, the fallback
\* 23000.0 only for the empty one.
C9_MeanForEveryNonEmptyList ==
    pc = "estimate_done" =>
        IF options = <<>> THEN spot_price = DefaultSpot
        ELSE IsMeanOfStrikes(spot_price, options)

\* C9 amended: the mean of all strikes when the list holds at least one call and
\* at least one put; the fallback 23000.0 when the list is empty or holds only
\* calls or only puts.
C9_MeanWhenCallsAndPuts ==
    pc = "estimate_done" =>
        IF /\ \E k \in 1..Len(options) : options[k].option_type = "call"
           /\ \E k \in 1..Len(options) : options[k].option_type = "put"
        THEN IsMeanOfStrikes(spot_price, options)
        ELSE spot_price = DefaultSpot

\* Strikes [90, 100, 110] with calls and a put give 100.
C9_Witness ==
    /\ pc = "estimate_done"
    /\ Len(options) = 3
    /\ Strikes(options) = <<Rat(90, 1), Rat(100, 1), Rat(110, 1)>>
    /\ options[2].option_type = "put"
    /\ spot_price = Hundred

-----------------------------------------------------------------------------
(* Claims about _generate_summary, under SpecSummary (C5) and Spec (C6). *)

\* _generate_summary has returned the three metric groups.
Summarised == pc \in {"summary_done", "done"} /\ Has(summary, "portfolio_metrics")

SuccessIdx == {k \in 1..Len(results) : results[k].calculation_success}
PricedIdx == {k \in 1..Len(results) : results[k].market_price # NoneVal}

ExpectedTotal(greek) ==
    SumOver(SuccessIdx, [k \in 1..Len(results) |->
                            RMul(results[k][greek], results[k].position)])

\* C5: the four net Greeks and total_value are the sums of value * position over
\* exactly the results with calculation_success true.
C5_TotalsOverSuccessfulOnly ==
    Summarised =>
        /\ summary.portfolio_metrics.net_delta = ExpectedTotal("delta")
        /\ summary.portfolio_metrics.net_gamma = ExpectedTotal("gamma")
        /\ summary.portfolio_metrics.net_vega = ExpectedTotal("vega")
        /\ summary.portfolio_metrics.net_theta = ExpectedTotal("theta")
        /\ summary.portfolio_metrics.total_value = ExpectedTotal("theoretical_price")

\* A success with delta 0.5 and position 2, then a failure with position 10
\* that carries numbers: net delta 1.0.
C5_Witness ==
    /\ Summarised
    /\ Len(results) = 2
    /\ results[1].calculation_success /\ results[1].delta = Rat(1, 2)
    /\ results[1].position = Rat(2, 1)
    /\ ~results[2].calculation_success /\ results[2].delta = Rat(1, 2)
    /\ results[2].position = Rat(10, 1)
    /\ summary.portfolio_metrics.net_delta = One

AbsPct == [k \in 1..Len(results) |->
              IF Has(results[k], "price_difference_pct")
              THEN RAbs(results[k].price_difference_pct) ELSE Zero]

MarketStatsOver(S) ==
    LET m == summary.market_analysis
    IN  /\ m.options_with_market_prices = Cardinality(S)
        /\ m.overpriced_count =
               Cardinality({k \in S : RGt(results[k].price_difference, Zero)})
        /\ m.underpriced_count =
               Cardinality({k \in S : RLt(results[k].price_difference, Zero)})
        /\ RMul(m.avg_price_difference_pct, Rat(Cardinality(S), 1)) = SumOver(S, AbsPct)
        /\ S = {} => m.avg_price_difference_pct = Zero

\* C6 as stated: the mispricing statistics range over exactly the results
\* that carry a market_price.
C6_StatsOverAllPriced == Summarised => MarketStatsOver(PricedIdx)

\* C6 amended: the mispricing statistics range over exactly the results with
\* calculation_success true that carry a market_price (a failed result's market
\* price counts nowhere); the average is 0 when there is none; when no result
\* succeeded the summary is the error marker and has no such statistics.
C6_StatsOverSuccessfulPriced ==
    /\ Summarised => MarketStatsOver(PricedIdx \cap SuccessIdx)
    /\ (pc \in {"summary_done", "done"} /\ SuccessIdx = {})
           => ~Has(summary, "market_analysis")

\* An underpriced success, and a failure whose market price is left out.
C6_Witness ==
    /\ Summarised
    /\ Len(results) = 2
    /\ results[1].calculation_success /\ results[1].market_price = Rat(3, 1)
    /\ ~results[2].calculation_success /\ results[2].market_price = Rat(5, 1)
    /\ summary.market_analysis.options_with_market_prices = 1
    /\ summary.market_analysis.underpriced_count = 1
    /\ summary.market_analysis.overpriced_count = 0
    /\ summary.market_analysis.avg_price_difference_pct = Rat(25, 1)

\* No result carries a market price: the average is 0.
C6_WitnessNone ==
    /\ Summarised
    /\ PricedIdx = {}
    /\ results # <<>>
    /\ summary.market_analysis.avg_price_difference_pct = Zero

-----------------------------------------------------------------------------
(* Text helpers of the parsers. *)

UpperCase == <<"A", "B", "C", "D", "E", "F", "G", "H", "I", "J", "K", "L", "M",
               "N", "O", "P", "Q", "R", "S", "T", "U", "V", "W", "X", "Y", "Z">>
LowerCase == <<"a", "b", "c", "d", "e", "f", "g", "h", "i", "j", "k", "l", "m",
               "n", "o", "p", "q", "r", "s", "t", "u", "v", "w", "x", "y", "z">>
Letters == {UpperCase[k] : k \in 1..26} \cup {LowerCase[k] : k \in 1..26}

LowerChar(c) == IF \E k \in 1..26 : UpperCase[k] = c
                THEN LowerCase[CHOOSE k \in 1..26 : UpperCase[k] = c]
                ELSE c

\* str.lower()
LowerText(text) == [k \in 1..Len(text) |-> LowerChar(text[k])]

\* The Python str of a list of characters.
RECURSIVE Join(_)
Join(text) == IF text = <<>> THEN "" ELSE Head(text) \o Join(Tail(text))

\* str.replace(c, '') for every c of chars
Without(text, chars) == LET Keep(c) == c \notin chars IN SelectSeq(text, Keep)

\* str.strip()
RECURSIVE Strip(_)
Strip(text) ==
    IF text # <<>> /\ Head(text) \in Whitespace THEN Strip(Tail(text))
    ELSE IF text # <<>> /\ text[Len(text)] \in Whitespace
         THEN Strip(SubSeq(text, 1, Len(text) - 1))
         ELSE text

\* float(text) of a str: surrounding whitespace is ignored. (Texts with an
\* exponent, a '+', an underscore, 'inf' or 'nan' are not among the inputs.)
PyFloat(text) == FloatOf(Strip(text))

-----------------------------------------------------------------------------
(* datetime.date and _estimate_expiry_days. *)

Date(y, m, d) == [year |-> y, month |-> m, day |-> d]

IsLeap(y) == y % 4 = 0 /\ (y % 100 # 0 \/ y % 400 = 0)

DaysInMonth(y, m) == IF m = 2 THEN (IF IsLeap(y) THEN 29 ELSE 28)
                     ELSE IF m \in {4, 6, 9, 11} THEN 30 ELSE 31

\* date(y, m, d) raises ValueError unless this holds.
ValidDate(y, m, d) ==
    /\ y >= 1 /\ y <= 9999
    /\ m >= 1 /\ m <= 12
    /\ d >= 1 /\ d <= DaysInMonth(y, m)

RECURSIVE DaysBeforeMonth(_, _)
DaysBeforeMonth(y, m) == IF m = 1 THEN 0
                         ELSE DaysBeforeMonth(y, m - 1) + DaysInMonth(y, m - 1)

\* date.toordinal()
Ordinal(dt) ==
    LET y == dt.year - 1
    IN  y * 365 + (y \div 4) - (y \div 100) + (y \div 400)
        + DaysBeforeMonth(dt.year, dt.month) + dt.day

AllDigits(text, from, n) ==
    /\ from + n - 1 <= Len(text)
    /\ \A k \in from..(from + n - 1) : text[k] \in Digits

AllLetters(text, from, n) ==
    /\ from + n - 1 <= Len(text)
    /\ \A k \in from..(from + n - 1) : text[k] \in Letters

CharAt(text, pos, c) == pos <= Len(text) /\ text[pos] = c

\* (\d{1,2})-([A-Za-z]{3})-(\d{4}) matches at pos with n digits of day.
DateAt(text, pos, n) ==
    /\ AllDigits(text, pos, n)
    /\ CharAt(text, pos + n, "-")
    /\ AllLetters(text, pos + n + 1, 3)
    /\ CharAt(text, pos + n + 4, "-")
    /\ AllDigits(text, pos + n + 5, 4)

\* re.search(date_pattern, filename): the leftmost match, two day digits
\* tried before one; its groups, or NoMatch.
DateSearch(text) ==
    LET starts == {pos \in 1..Len(text) : DateAt(text, pos, 2) \/ DateAt(text, pos, 1)}
    IN  IF starts = {} THEN NoMatch
        ELSE LET pos == CHOOSE m \in starts : \A k \in starts : m <= k
                 n == IF DateAt(text, pos, 2) THEN 2 ELSE 1
             IN  [matched |-> TRUE,
                  day |-> SubSeq(text, pos, pos + n - 1),
                  month_str |-> Join(SubSeq(text, pos + n + 1, pos + n + 3)),
                  year |-> SubSeq(text, pos + n + 5, pos + n + 8)]

MonthNames == {"Jan", "Feb", "Mar", "Apr", "May", "Jun", "Jul", "Aug", "Sep", "Oct",
               "Nov", "Dec"}

\* month_map.get(month_str, 8)
MonthNumber(month_str) ==
    CASE month_str = "Jan" -> 1 [] month_str = "Feb" -> 2 [] month_str = "Mar" -> 3
      [] month_str = "Apr" -> 4 [] month_str = "May" -> 5 [] month_str = "Jun" -> 6
      [] month_str = "Jul" -> 7 [] month_str = "Aug" -> 8 [] month_str = "Sep" -> 9
      [] month_str = "Oct" -> 10 [] month_str = "Nov" -> 11 [] month_str = "Dec" -> 12
      [] OTHER -> 8

DefaultExpiryDays == 30

\* ClampDays, if the minimum of one day were not applied.
ClampDays_None(n) == n

\* max(1, n)
ClampDays(n) == IF n > 1 THEN n ELSE 1

\* _estimate_expiry_days for the file name filename on the day now.
_estimate_expiry_days(filename, now) ==
    LET match == DateSearch(filename)
    IN  IF match.matched
        THEN LET month == MonthNumber(match.month_str)
                 year == DigitsValue(match.year)
                 day == DigitsValue(match.day)
             IN  IF ValidDate(year, month, day)
                 THEN ClampDays(Ordinal(Date(year, month, day)) - Ordinal(now))
                 ELSE DefaultExpiryDays
        ELSE DefaultExpiryDays

\* What a file name is built from: a day, a month and a year text between
\* 'oc-' and '.csv', or a name without any date.
DatedName(day, mon, year) ==
    [dated |-> TRUE, day |-> day, mon |-> mon, year |-> year,
     text |-> <<"o", "c", "-">> \o day \o <<"-">> \o mon \o <<"-">> \o year
              \o <<".", "c", "s", "v">>]
PlainName(text) == [dated |-> FALSE, text |-> text]

DayTexts == {<<"1", "4">>, <<"5">>, <<"3", "1">>, <<"2", "9">>, <<"0">>}
MonthTexts == {<<"A", "u", "g">>, <<"F", "e", "b">>, <<"D", "e", "c">>,
               <<"X", "y", "z">>, <<"f", "e", "b">>}
YearTexts == {<<"2", "0", "2", "5">>, <<"2", "0", "2", "4">>, <<"0", "0", "0", "0">>}

FileNames ==
    {DatedName(d, m, y) : d \in DayTexts, m \in MonthTexts, y \in YearTexts}
    \cup {PlainName(<<"c", "h", "a", "i", "n", ".", "c", "s", "v">>),
          PlainName(<<"o", "c", "-", "1", "4", "-", "0", "8", "-", "2", "0", "2", "5">>),
          PlainName(<<"1", "4", "-", "A", "u", "g", "u", "s", "t", "-", "2", "0", "2", "5">>),
          PlainName(<<"1", "4", "-", "A", "u", "g", "-", "2", "5", ".", "c", "s", "v">>)}

Todays == {Date(2025, 8, 1), Date(2025, 8, 20), Date(2024, 2, 1), Date(2025, 11, 30)}

ExpiryInit ==
    /\ pc = "expiry_call"
    /\ file \in {[name |-> n] : n \in FileNames}
    /\ today \in Todays
    /\ expiry_days = NoneVal /\ exc = NoneVal
    /\ bsm_arg = NoneVal /\ existing = {} /\ bsm_executable = NoneVal
    /\ output_format = NoneVal /\ printed = NoneVal /\ exit_status = NoneVal
    /\ log = <<>>
    /\ format_type = NoneVal /\ options = <<>> /\ spot_arg = NoneVal /\ rate = NoneVal
    /\ spot_price = NoneVal /\ i = 0 /\ calls = <<>> /\ procs = <<>> /\ proc = NoneVal
    /\ calculation = NoneVal /\ results = <<>> /\ summary = NoneVal /\ report = NoneVal

pipeVars == <<format_type, options, spot_arg, rate, spot_price, i, calls, procs, proc,
              calculation, results, summary, report>>

EstimateExpiry ==
    /\ pc = "expiry_call"
    /\ expiry_days' = _estimate_expiry_days(file.name.text, today)
    /\ pc' = "expiry_done"
    /\ UNCHANGED <<pipeVars, file, today, exc, bsm_arg, existing, bsm_executable,
                   output_format, printed, exit_status, log>>

ExpiryNext == EstimateExpiry

SpecExpiry == ExpiryInit /\ [][ExpiryNext]_vars

\* The file name carries a date that exists: a known month abbreviation and a
\* day of that month.
RealDate(name) ==
    /\ name.dated
    /\ Join(name.mon) \in MonthNames
    /\ ValidDate(DigitsValue(name.year), MonthNumber(Join(name.mon)), DigitsValue(name.day))

DaysUntil(name, month) ==
    Ordinal(Date(DigitsValue(name.year), month, DigitsValue(name.day))) - Ordinal(today)

\* C18 as stated: max(1, days until the date of the file name) when the name
\* carries a date that exists, and 30 otherwise (no date, an unknown month
\* abbreviation, an impossible day); so always >= 1.
C18_ThirtyUnlessRealDate ==
    pc = "expiry_done" =>
        /\ expiry_days >= 1
        /\ IF RealDate(file.name)
           THEN LET n == DaysUntil(file.name, MonthNumber(Join(file.name.mon)))
                IN  expiry_days = IF n > 1 THEN n ELSE 1
           ELSE expiry_days = 30

\* C18 amended: an unknown month abbreviation is read as August; the result is
\* max(1, days until the date) when the day exists in the month so read, and 30
\* when the name carries no date pattern or the day or year is impossible; it
\* is always >= 1.
C18_UnknownMonthIsAugust ==
    pc = "expiry_done" =>
        /\ expiry_days >= 1
        /\ LET name == file.name
               month == IF name.dated /\ Join(name.mon) \in MonthNames
                        THEN MonthNumber(Join(name.mon)) ELSE 8
           IN  IF name.dated
                  /\ ValidDate(DigitsValue(name.year), month, DigitsValue(name.day))
               THEN LET n == DaysUntil(name, month)
                    IN  expiry_days = IF n > 1 THEN n ELSE 1
               ELSE expiry_days = 30

\* oc-14-Xyz-2025.csv read on 2025-08-01: 13 days, those until 14 August.
C18_Witness ==
    /\ pc = "expiry_done"
    /\ file.name = DatedName(<<"1", "4">>, <<"X", "y", "z">>, <<"2", "0", "2", "5">>)
    /\ today = Date(2025, 8, 1)
    /\ expiry_days = 13

\* A date in the past gives 1, an impossible day gives 30.
C18_WitnessClamped ==
    /\ pc = "expiry_done"
    /\ file.name = DatedName(<<"1", "4">>, <<"A", "u", "g">>, <<"2", "0", "2", "5">>)
    /\ today = Date(2025, 8, 20)
    /\ expiry_days = 1

-----------------------------------------------------------------------------
(* A CSV file: its name, the cells of its header line and the cells of its
   data rows as csv.reader splits them. Each data row comes with what it was
   written to be (rowsOf), which the parsers never read. *)

MaxRows == 3

Cell(text) == [text |-> text]

\* The first line as format detection reads it: the header cells joined by ','.
RECURSIVE FirstLine(_)
FirstLine(cells) ==
    IF cells = <<>> THEN <<>>
    ELSE IF Len(cells) = 1 THEN cells[1]
         ELSE cells[1] \o <<",">> \o FirstLine(Tail(cells))

PortfolioSignature == <<"s", "y", "m", "b", "o", "l", ",", "p", "o", "s", "i", "t", "i", "o", "n", ",", "s", "p", "o", "t", ",", "s", "t", "r", "i", "k", "e">>

\* 'symbol,position,spot,strike' in first_line.lower()
IsPortfolioFormat(header) == Contains(LowerText(FirstLine(header)), PortfolioSignature)

-----------------------------------------------------------------------------
(* parse_portfolio_csv *)

\* csv.DictReader: the row as a dict keyed by the header's names; a key
\* whose cell the row lacks maps to None.
DictRow(fieldnames, cells) ==
    [name \in {Join(fieldnames[k]) : k \in 1..Len(fieldnames)} |->
        LET k == CHOOSE n \in 1..Len(fieldnames) : Join(fieldnames[n]) = name
        IN  IF k <= Len(cells) THEN Cell(cells[k]) ELSE NoneVal]

\* The keys the dict literal reads, in evaluation order.
PortfolioKeys == <<"symbol", "position", "spot", "strike", "expiry", "volatility",
                   "option_type">>

\* What reading one key of the row raises, or "ok".
KeyOutcome(row, key) ==
    IF key \notin DOMAIN row THEN "KeyError"
    ELSE IF key = "symbol" THEN "ok"
    ELSE IF key = "option_type"
         THEN (IF row[key] = NoneVal THEN "AttributeError" ELSE "ok")
    ELSE IF row[key] = NoneVal THEN "TypeError"
    ELSE IF PyFloat(row[key].text) = ValueError THEN "ValueError"
    ELSE "ok"

\* What building the option of one row raises: the first failure, or "ok".
RowOutcome(row) ==
    LET failed == {k \in 1..Len(PortfolioKeys) : KeyOutcome(row, PortfolioKeys[k]) # "ok"}
    IN  IF failed = {} THEN "ok"
        ELSE KeyOutcome(row, PortfolioKeys[CHOOSE k \in failed : \A n \in failed : k <= n])

\* The dict literal of lines 111-120.
PortfolioRecord(row) ==
    [symbol |-> Join(row["symbol"].text),
     position |-> PyFloat(row["position"].text),
     spot_price |-> PyFloat(row["spot"].text),
     strike |-> PyFloat(row["strike"].text),
     expiry_days |-> RMul(PyFloat(row["expiry"].text), Rat(365, 1)),
     implied_volatility |-> PyFloat(row["volatility"].text),
     option_type |-> Join(LowerText(row["option_type"].text)),
     market_price |-> NoneVal]

Raised(name) == [raised |-> name]
Returned(value, warnings) == [value |-> value, warnings |-> warnings]

\* The loop of parse_portfolio_csv from row `from` on, with the options and the
\* number of warnings so far: the returned list, or the exception that escapes.
RECURSIVE PortfolioLoop(_, _, _, _, _)
PortfolioLoop(fieldnames, rows, from, acc, warnings) ==
    IF from > Len(rows) THEN Returned(acc, warnings)
    ELSE IF rows[from] = <<>>
         THEN PortfolioLoop(fieldnames, rows, from + 1, acc, warnings)
    ELSE LET row == DictRow(fieldnames, rows[from])
             outcome == RowOutcome(row)
         IN  IF outcome = "ok"
             THEN PortfolioLoop(fieldnames, rows, from + 1,
                                Append(acc, PortfolioRecord(row)), warnings)
             ELSE IF outcome \in {"ValueError", "KeyError"}
                  THEN PortfolioLoop(fieldnames, rows, from + 1, acc, warnings + 1)
                  ELSE Raised(outcome)

parse_portfolio_csv(fieldnames, rows) == PortfolioLoop(fieldnames, rows, 1, <<>>, 0)

-----------------------------------------------------------------------------
(* parse_option_chain_csv *)

ChainColumns == 23
StrikeColumn == 11
CallLtpColumn == 5
CallIvColumn == 4
PutLtpColumn == 17
PutIvColumn == 18

\* row[k] of a Python list
At(cells, k) == cells[k + 1]

Separators == {",", "\""}

_parse_price(price_str) ==
    IF price_str = <<>> \/ price_str = <<"-">> THEN NoneVal
    ELSE LET clean_str == Strip(Without(price_str, Separators))
         IN  IF clean_str = <<>> THEN NoneVal
             ELSE IF FloatOf(clean_str) = ValueError THEN NoneVal
             ELSE FloatOf(clean_str)

_parse_percentage(pct_str) ==
    IF pct_str = <<>> \/ pct_str = <<"-">> THEN NoneVal
    ELSE LET clean_str == Strip(Without(pct_str, Separators \cup {"%"}))
         IN  IF clean_str = <<>> THEN NoneVal
             ELSE IF FloatOf(clean_str) = ValueError THEN NoneVal
             ELSE RDiv(FloatOf(clean_str), Hundred)

\* "iv or 0.20"
VolatilityOr(iv) == IF iv = NoneVal \/ iv = Zero THEN Rat(20, 100) ELSE iv

\* HasPrice, if a price of zero or below counted as data.
HasPrice_NotNone(ltp) == ltp # NoneVal

\* "ltp is not None and ltp > 0"
HasPrice(ltp) == ltp # NoneVal /\ RGt(ltp, Zero)

ChainRecord(strike, type, ltp, iv, days) ==
    [symbol |-> "NIFTY", strike |-> strike, option_type |-> type, market_price |-> ltp,
     implied_volatility |-> VolatilityOr(iv), expiry_days |-> Rat(days, 1)]

\* The options one row appends (lines 59-100).
ChainRowOptions(cells, days) ==
    IF Len(cells) < ChainColumns THEN <<>>
    ELSE LET strike_str == Without(At(cells, StrikeColumn), Separators)
         IN  IF strike_str = <<>> \/ strike_str = <<"-">> THEN <<>>
             ELSE IF PyFloat(strike_str) = ValueError THEN <<>>
             ELSE LET strike == PyFloat(strike_str)
                      call_ltp == _parse_price(At(cells, CallLtpColumn))
                      call_iv == _parse_percentage(At(cells, CallIvColumn))
                      put_ltp == _parse_price(At(cells, PutLtpColumn))
                      put_iv == _parse_percentage(At(cells, PutIvColumn))
                  IN  (IF HasPrice(call_ltp)
                       THEN <<ChainRecord(strike, "call", call_ltp, call_iv, days)>>
                       ELSE <<>>)
                      \o (IF HasPrice(put_ltp)
                          THEN <<ChainRecord(strike, "put", put_ltp, put_iv, days)>>
                          ELSE <<>>)

RECURSIVE ChainLoop(_, _)
ChainLoop(rows, days) ==
    IF rows = <<>> THEN <<>>
    ELSE ChainRowOptions(Head(rows), days) \o ChainLoop(Tail(rows), days)

parse_option_chain_csv(filename, rows, now) ==
    Returned(ChainLoop(rows, _estimate_expiry_days(filename, now)), 0)

-----------------------------------------------------------------------------
(* The files of the parse checks. *)

PortfolioHeader == <<<<"s", "y", "m", "b", "o", "l">>, <<"p", "o", "s", "i", "t", "i", "o", "n">>, <<"s", "p", "o", "t">>, <<"s", "t", "r", "i", "k", "e">>, <<"e", "x", "p", "i", "r", "y">>, <<"v", "o", "l", "a", "t", "i", "l", "i", "t", "y">>, <<"o", "p", "t", "i", "o", "n", "_", "t", "y", "p", "e">>>>

\* A header without the option_type column: still detected as a portfolio.
ShortHeader == <<<<"S", "y", "m", "b", "o", "l">>, <<"P", "o", "s", "i", "t", "i", "o", "n">>, <<"S", "p", "o", "t">>, <<"S", "t", "r", "i", "k", "e">>, <<"E", "x", "p", "i", "r", "y">>, <<"V", "o", "l", "a", "t", "i", "l", "i", "t", "y">>>>

\* Portfolio rows: what the line was written to be and the option it
\* describes, if all its fields are there and its numbers are numbers.
PortfolioRows ==
   {[cells |-> <<<<"A", "A", "P", "L">>, <<"1">>, <<"1", "0", "0">>, <<"1", "0", "0">>, <<"0", ".", "2", "5">>, <<"0", ".", "2">>, <<"c", "a", "l", "l">>>>,
     kind |-> "option", option |-> PortfolioOption(1, 100, 100, "call")],
    [cells |-> <<<<"A", "A", "P", "L">>, <<"1", "0">>, <<"1", "0", "5">>, <<"1", "1", "0">>, <<"0", ".", "2", "5">>, <<"0", ".", "2">>, <<"P", "U", "T">>>>,
     kind |-> "option", option |-> PortfolioOption(10, 105, 110, "put")],
    [cells |-> <<<<"A", "A", "P", "L">>, <<"-", "3">>, <<"9", "5">>, <<"9", "0">>, <<"0", ".", "2", "5">>, <<"0", ".", "2">>, <<"S", "t", "r", "a", "d", "d", "l", "e">>>>,
     kind |-> "option", option |-> PortfolioOption(-3, 95, 90, "straddle")],
    [cells |-> <<<<"A", "A", "P", "L">>, <<"1">>, <<"1", "0", "0">>, <<"a", "b", "c">>, <<"0", ".", "2", "5">>, <<"0", ".", "2">>, <<"c", "a", "l", "l">>>>,
     kind |-> "bad_number", option |-> NoneVal],
    [cells |-> <<<<"A", "A", "P", "L">>, <<>>, <<"1", "0", "0">>, <<"1", "0", "0">>, <<"0", ".", "2", "5">>, <<"0", ".", "2">>, <<"c", "a", "l", "l">>>>,
     kind |-> "bad_number", option |-> NoneVal],
    [cells |-> <<<<"A", "A", "P", "L">>, <<"1">>, <<"1", "0", "0">>>>,
     kind |-> "short", option |-> NoneVal],
    [cells |-> <<<<"A", "A", "P", "L">>, <<"1">>, <<"1", "0", "0">>, <<"1", "0", "0">>, <<"0", ".", "2", "5">>, <<"0", ".", "2">>>>,
     kind |-> "short", option |-> NoneVal],
    [cells |-> <<>>,
     kind |-> "blank", option |-> NoneVal]}

Filler == <<"-">>

\* An option-chain row of n columns with the given IV, LTP and strike texts.
ChainCells(n, civ, cltp, strike, pltp, piv) ==
    [k \in 1..n |->
        CASE k = CallIvColumn + 1 -> civ
          [] k = CallLtpColumn + 1 -> cltp
          [] k = StrikeColumn + 1 -> strike
          [] k = PutLtpColumn + 1 -> pltp
          [] k = PutIvColumn + 1 -> piv
          [] OTHER -> Filler]

\* The strike and the prices an option-chain row was written with; NoneVal for
\* a text that is no number.
ChainRow(n, civ, cltp, strike, pltp, piv, strikeValue, callValue, putValue) ==
    [cells |-> ChainCells(n, civ, cltp, strike, pltp, piv), columns |-> n,
     strike |-> strikeValue, call_ltp |-> callValue, put_ltp |-> putValue]

ChainRows ==
   {ChainRow(23, <<"1", "2", ".", "5">>, <<"4", ".", "5">>, <<"1", "0", "0">>, <<"3">>, <<"-">>,
             Rat(100, 1), Rat(9, 2), Rat(3, 1)),
    ChainRow(23, <<"-">>, <<"4", ".", "5">>, <<"1", ",", "1", "0", "0">>, <<"-">>, <<"-">>,
             Rat(1100, 1), Rat(9, 2), NoneVal),
    ChainRow(23, <<"-">>, <<"-">>, <<"1", "0", "0">>, <<"3">>, <<"0">>,
             Rat(100, 1), NoneVal, Rat(3, 1)),
    ChainRow(23, <<"-">>, <<"0">>, <<"1", "0", "0">>, <<"a", "b", "c">>, <<"-">>,
             Rat(100, 1), Rat(0, 1), NoneVal),
    ChainRow(23, <<"-">>, <<"-", "2">>, <<"1", "0", "0">>, <<>>, <<"-">>,
             Rat(100, 1), Rat(-2, 1), NoneVal),
    ChainRow(23, <<"-">>, <<"4", ".", "5">>, <<"-">>, <<"3">>, <<"-">>,
             NoneVal, Rat(9, 2), Rat(3, 1)),
    ChainRow(23, <<"-">>, <<"4", ".", "5">>, <<>>, <<"3">>, <<"-">>,
             NoneVal, Rat(9, 2), Rat(3, 1)),
    ChainRow(23, <<"-">>, <<"4", ".", "5">>, <<"a", "b", "c">>, <<"3">>, <<"-">>,
             NoneVal, Rat(9, 2), Rat(3, 1)),
    ChainRow(22, <<"-">>, <<"4", ".", "5">>, <<"1", "0", "0">>, <<"3">>, <<"-">>,
             Rat(100, 1), Rat(9, 2), Rat(3, 1)),
    ChainRow(24, <<"-">>, <<"1", ",", "2", "3", "4", ".", "5">>, <<"9", "0">>, <<" ", "3", " ">>, <<"-">>,
             Rat(90, 1), Rat(2469, 2), Rat(3, 1))}

ChainHeader == [k \in 1..ChainColumns |-> <<"h">>]

ChainName == PlainName(<<"c", "h", "a", "i", "n", ".", "c", "s", "v">>)
PortfolioName == PlainName(<<"p", "o", "r", "t", "f", "o", "l", "i", "o", ".", "c", "s", "v">>)

CsvFile(name, header, plans) ==
    [name |-> name, header |-> header,
     rows |-> [k \in 1..Len(plans) |-> plans[k].cells], rowsOf |-> plans]

PortfolioFiles(n) ==
    {CsvFile(PortfolioName, h, plans) :
        h \in {PortfolioHeader, ShortHeader}, plans \in SeqsUpTo(PortfolioRows, n)}

ChainFiles(n) ==
    {CsvFile(ChainName, ChainHeader, plans) : plans \in SeqsUpTo(ChainRows, n)}

ParseToday == Date(2025, 8, 1)

ParseInit ==
    /\ pc = "parse_call"
    /\ file \in PortfolioFiles(MaxRows) \cup ChainFiles(MaxRows)
    /\ today = ParseToday
    /\ expiry_days = NoneVal /\ exc = NoneVal
    /\ bsm_arg = NoneVal /\ existing = {} /\ bsm_executable = NoneVal
    /\ output_format = NoneVal /\ printed = NoneVal /\ exit_status = NoneVal
    /\ log = <<>>
    /\ format_type = NoneVal /\ options = <<>> /\ spot_arg = NoneVal /\ rate = Rat(5, 100)
    /\ spot_price = NoneVal /\ i = 0 /\ calls = <<>> /\ procs = <<>> /\ proc = NoneVal
    /\ calculation = NoneVal /\ results = <<>> /\ summary = NoneVal /\ report = NoneVal

\* The parser call of analyze_csv: the list is bound to options, or the
\* exception leaves analyze_csv.
Parsed(fmt, parsed) ==
    /\ log' = Append(log, IF Has(parsed, "raised") THEN "parse_raised" ELSE "parse")
    /\ IF Has(parsed, "raised")
       THEN /\ exc' = parsed
            /\ pc' = "raised"
            /\ UNCHANGED <<options, format_type>>
       ELSE /\ options' = parsed.value
            /\ format_type' = fmt
            /\ exc' = NoneVal
            /\ pc' = "analyze_csv"
    /\ UNCHANGED <<spot_arg, rate, spot_price, i, calls, procs, proc, calculation,
                   results, summary, report, file, today, expiry_days, bsm_arg,
                   existing, bsm_executable, output_format, printed, exit_status>>

\* analyze_csv, lines 250-256
ParsePortfolio ==
    /\ pc = "parse_call"
    /\ IsPortfolioFormat(file.header)
    /\ Parsed("portfolio", parse_portfolio_csv(file.header, file.rows))

\* analyze_csv, lines 250-253 and 257-259
ParseChain ==
    /\ pc = "parse_call"
    /\ ~IsPortfolioFormat(file.header)
    /\ Parsed("option_chain", parse_option_chain_csv(file.name.text, file.rows, today))

ParseNext == ParsePortfolio \/ ParseChain

SpecParse == ParseInit /\ [][ParseNext]_vars

-----------------------------------------------------------------------------
(* Claims about the parsers. *)

ParseReturned == pc = "analyze_csv" /\ log = <<"parse">>
ParseRaised == pc = "raised" /\ log = <<"parse_raised">>
ValidPortfolioFile == file # NoneVal /\ file.header = PortfolioHeader

\* The options of the rows written as options, in file order.
RECURSIVE WellFormedOptions(_)
WellFormedOptions(plans) ==
    IF plans = <<>> THEN <<>>
    ELSE (IF Head(plans).kind = "option" THEN <<Head(plans).option>> ELSE <<>>)
         \o WellFormedOptions(Tail(plans))

HasKind(plans, kind) == \E k \in 1..Len(plans) : plans[k].kind = kind

\* C11 as stated: for a file with a valid header parse_portfolio_csv never
\* raises, and it returns the options of exactly the well-formed rows in file
\* order, whatever malformed rows (unparsable number, row shorter than the
\* header) stand between them.
C11_MalformedRowsSkipped ==
    ValidPortfolioFile /\ (ParseReturned \/ ParseRaised) =>
        /\ exc = NoneVal
        /\ options = WellFormedOptions(file.rowsOf)

\* What holds of C11: without a short row the malformed rows are skipped and
\* the rest is returned in order.
C11_BadNumbersSkipped ==
    ValidPortfolioFile /\ (ParseReturned \/ ParseRaised)
    /\ ~HasKind(file.rowsOf, "short") =>
        /\ exc = NoneVal
        /\ options = WellFormedOptions(file.rowsOf)

\* A short row: the parse raises TypeError and returns nothing.
C11_ShortRowRaises ==
    /\ ValidPortfolioFile /\ ParseRaised
    /\ exc = Raised("TypeError")
    /\ HasKind(file.rowsOf, "option")

\* C12: every option a parser returns has option_type 'call' or 'put'.
C12_OptionTypeCanonical ==
    ParseReturned => \A k \in 1..Len(options) : options[k].option_type \in {"call", "put"}

\* What holds of C12: the option-chain parser returns only 'call' and 'put'.
C12_ChainTypeCanonical ==
    ParseReturned /\ format_type = "option_chain" =>
        \A k \in 1..Len(options) : options[k].option_type \in {"call", "put"}

ChainFile == file # NoneVal /\ file.header = ChainHeader

Positive(value) == value # NoneVal /\ value.num > 0

\* <<type, strike, price>> of the options an option-chain row is to yield.
ExpectedOfRow(plan) ==
    IF plan.columns < 23 \/ plan.strike = NoneVal THEN <<>>
    ELSE (IF Positive(plan.call_ltp) THEN <<<<"call", plan.strike, plan.call_ltp>>>>
          ELSE <<>>)
         \o (IF Positive(plan.put_ltp) THEN <<<<"put", plan.strike, plan.put_ltp>>>>
             ELSE <<>>)

RECURSIVE ExpectedOfRows(_)
ExpectedOfRows(plans) ==
    IF plans = <<>> THEN <<>>
    ELSE ExpectedOfRow(Head(plans)) \o ExpectedOfRows(Tail(plans))

Shown(opts) ==
    [k \in 1..Len(opts) |-> <<opts[k].option_type, opts[k].strike, opts[k].market_price>>]

\* C17: parse_option_chain_csv never raises; a row of fewer than 23 columns or
\* with a blank, '-' or unparsable strike yields nothing; any other row yields
\* a call iff its call LTP is a number > 0 and a put iff its put LTP is a
\* number > 0, call first, both with the row's strike; rows keep their order.
C17_RowsMapToCallAndPut ==
    ChainFile /\ pc # "parse_call" =>
        /\ ParseReturned
        /\ Shown(options) = ExpectedOfRows(file.rowsOf)

\* A row with both prices followed by a row with a call price only: call and
\* put of strike 100, then the call of strike 1100.
C17_Witness ==
    /\ ChainFile /\ ParseReturned
    /\ Len(file.rows) = 2
    /\ Shown(options) = <<<<"call", Rat(100, 1), Rat(9, 2)>>,
                          <<"put", Rat(100, 1), Rat(3, 1)>>,
                          <<"call", Rat(1100, 1), Rat(9, 2)>>>>

-----------------------------------------------------------------------------
(* output_results and the three formats. An output is a sequence of lines.
   A piece of a line is a literal text, or the rendering of a value by str(),
   by a format specification or by the JSON encoder, which are kept apart and
   not computed digit by digit. *)

Lit(text) == [lit |-> text]
Empty == Lit("")

\* f"{value}": str(value); str(None) is 'None'.
Interpolated(value) == IF value = NoneVal THEN Lit("None") ELSE [str |-> value]

\* f"{n}" of an int
Counted(n) == [str |-> n]

\* c * n
Rule(c, n) == [repeat |-> c, times |-> n]

\* f"{value:spec}"
Fixed(value, spec) == [value |-> value, spec |-> spec]

\* f"{opt.get(key, '')}"
GetOrEmpty(opt, key) == IF Has(opt, key) THEN Interpolated(opt[key]) ELSE Empty

CsvHeader ==
    <<Lit("symbol"), Lit("option_type"), Lit("strike"), Lit("expiry_days"),
      Lit("implied_volatility"), Lit("market_price"), Lit("theoretical_price"),
      Lit("price_difference"), Lit("price_difference_pct"), Lit("delta"), Lit("gamma"),
      Lit("vega"), Lit("theta"), Lit("position")>>

\* One data row of the CSV output: its cells between the commas.
CsvRow(opt) ==
    <<Lit(opt.symbol), Lit(opt.option_type), Interpolated(opt.strike),
      Interpolated(opt.expiry_days), Interpolated(opt.implied_volatility),
      GetOrEmpty(opt, "market_price"), Interpolated(opt.theoretical_price),
      GetOrEmpty(opt, "price_difference"), GetOrEmpty(opt, "price_difference_pct"),
      Interpolated(opt.delta), Interpolated(opt.gamma), Interpolated(opt.vega),
      Interpolated(opt.theta), Interpolated(opt.position)>>

\* _format_as_csv: the lines joined by "\n", each as its cells.
_format_as_csv(res) ==
    IF Has(res, "error") THEN <<<<Lit("Error"), Lit(res.error)>>>>
    ELSE <<CsvHeader>> \o [k \in 1..Len(res.options) |-> CsvRow(res.options[k])]

TableLimit == 20

TableRow(opt) ==
    <<Lit(opt.symbol), Lit(opt.option_type), Fixed(opt.strike, "<8.0f"),
      Fixed(opt.expiry_days, "<4.0f"), Fixed(opt.implied_volatility, "<6.1%"),
      IF opt.market_price # NoneVal THEN Fixed(opt.market_price, ".2f") ELSE Lit("N/A"),
      Fixed(opt.theoretical_price, "<8.2f"),
      IF Has(opt, "price_difference_pct") THEN Fixed(opt.price_difference_pct, ".1f")
      ELSE Lit("N/A"),
      Fixed(opt.delta, "<7.3f"), Fixed(opt.gamma, "<7.4f"), Fixed(opt.vega, "<6.2f"),
      Fixed(opt.theta, "<7.2f")>>

TableSummary(s) ==
    IF Has(s, "error") THEN <<>>
    ELSE <<<<Empty>>, <<Lit("PORTFOLIO SUMMARY:")>>, <<Rule("-", 40)>>,
           <<Lit("Total Portfolio Value: "), Fixed(s.portfolio_metrics.total_value, ",.2f")>>,
           <<Lit("Net Delta: "), Fixed(s.portfolio_metrics.net_delta, ".2f")>>,
           <<Lit("Net Gamma: "), Fixed(s.portfolio_metrics.net_gamma, ".4f")>>,
           <<Lit("Net Vega: "), Fixed(s.portfolio_metrics.net_vega, ".2f")>>,
           <<Lit("Net Theta: "), Fixed(s.portfolio_metrics.net_theta, ".2f")>>,
           <<Empty>>, <<Lit("MARKET ANALYSIS:")>>, <<Rule("-", 20)>>,
           <<Lit("Options with Market Prices: "),
             Counted(s.market_analysis.options_with_market_prices)>>,
           <<Lit("Avg Price Difference: "),
             Fixed(s.market_analysis.avg_price_difference_pct, ".1f"), Lit("%")>>,
           <<Lit("Overpriced: "), Counted(s.market_analysis.overpriced_count),
             Lit(", Underpriced: "), Counted(s.market_analysis.underpriced_count)>>>>

\* _format_as_table for the file name filename of the metadata.
_format_as_table(res, filename) ==
    IF Has(res, "error") THEN <<<<Lit("Error: " \o res.error)>>>>
    ELSE LET meta == res.metadata
             shown == IF Len(res.options) > TableLimit
                      THEN SubSeq(res.options, 1, TableLimit) ELSE res.options
         IN  <<<<Rule("=", 80)>>,
               <<Lit("BLACK-SCHOLES-MERTON OPTION PRICING ANALYSIS")>>,
               <<Rule("=", 80)>>,
               <<Lit("File: "), Lit(filename)>>,
               <<Lit("Format: "), Lit(meta.format_type)>>,
               <<Lit("Options Analyzed: "), Counted(meta.total_options)>>,
               <<Lit("Spot Price: "), Fixed(meta.spot_price, ".2f")>>,
               <<Lit("Risk-free Rate: "), Fixed(meta.risk_free_rate, ".2%")>>,
               <<Empty>>,
               <<Lit("OPTION DETAILS:")>>,
               <<Rule("-", 120)>>,
               <<Lit("Symbol"), Lit("Type"), Lit("Strike"), Lit("Days"), Lit("IV"),
                 Lit("Market"), Lit("Theor."), Lit("Diff%"), Lit("Delta"), Lit("Gamma"),
                 Lit("Vega"), Lit("Theta")>>,
               <<Rule("-", 120)>>>>
             \o [k \in 1..Len(shown) |-> TableRow(shown[k])]
             \o (IF Len(res.options) > TableLimit
                 THEN <<<<Lit("... and "), Counted(Len(res.options) - TableLimit),
                          Lit(" more options")>>>>
                 ELSE <<>>)
             \o TableSummary(res.summary)
             \o <<<<Rule("=", 80)>>>>

\* One line of json.dumps(..., indent=2): the indentation depth, the text
\* before the value, the value as the encoder writes it, the text after it.
DumpLine(depth, key, value, comma) ==
    [indent |-> 2 * depth, key |-> key, value |-> value, comma |-> comma]
DumpOpen(depth, key, bracket) == [indent |-> 2 * depth, key |-> key, open |-> bracket]
DumpClose(depth, bracket, comma) == [indent |-> 2 * depth, close |-> bracket, comma |-> comma]

\* The members of a dict of scalars, in the order of its keys.
DumpMembers(keys, rec, depth) ==
    LET Present(key) == Has(rec, key)
        present == SelectSeq(keys, Present)
    IN  [n \in 1..Len(present) |->
            DumpLine(depth, present[n], [json |-> rec[present[n]]], n < Len(present))]

DumpDict(key, keys, rec, depth, comma) ==
    <<DumpOpen(depth, key, "{")>> \o DumpMembers(keys, rec, depth + 1)
    \o <<DumpClose(depth, "}", comma)>>

MetadataKeys == <<"filename", "format_type", "total_options", "spot_price",
                  "risk_free_rate", "analysis_time">>
ResultKeys == <<"symbol", "option_type", "strike", "spot_price", "expiry_days",
                "implied_volatility", "market_price", "position", "theoretical_price",
                "delta", "gamma", "vega", "theta", "calculation_success",
                "price_difference", "price_difference_pct">>
PortfolioMetricKeys == <<"total_value", "net_delta", "net_gamma", "net_vega", "net_theta",
                         "delta_adjusted_value">>
MarketAnalysisKeys == <<"options_with_market_prices", "avg_price_difference_pct",
                        "overpriced_count", "underpriced_count">>
RiskMetricKeys == <<"portfolio_delta_risk", "portfolio_gamma_risk", "portfolio_vega_risk",
                    "portfolio_theta_decay">>

RECURSIVE DumpResults(_, _)
DumpResults(res, depth) ==
    IF res = <<>> THEN <<>>
    ELSE DumpDict("", ResultKeys, Head(res), depth, Len(res) > 1)
         \o DumpResults(Tail(res), depth)

DumpSummary(s) ==
    IF Has(s, "error") THEN DumpDict("summary", <<"error">>, s, 1, FALSE)
    ELSE <<DumpOpen(1, "summary", "{")>>
         \o DumpDict("portfolio_metrics", PortfolioMetricKeys, s.portfolio_metrics, 2, TRUE)
         \o DumpDict("market_analysis", MarketAnalysisKeys, s.market_analysis, 2, TRUE)
         \o DumpDict("risk_metrics", RiskMetricKeys, s.risk_metrics, 2, FALSE)
         \o <<DumpClose(1, "}", FALSE)>>

\* json.dumps(results, indent=2) for the file name and the clock reading of
\* the metadata.
json_dumps(res, filename) ==
    IF Has(res, "error") THEN DumpDict("", <<"error">>, res, 0, FALSE)
    ELSE <<DumpOpen(0, "", "{")>>
         \o DumpDict("metadata", MetadataKeys,
                     res.metadata @@ [filename |-> filename, analysis_time |-> "now"],
                     1, TRUE)
         \o (IF res.options = <<>> THEN <<DumpLine(1, "options", [json |-> <<>>], TRUE)>>
             ELSE <<DumpOpen(1, "options", "[")>> \o DumpResults(res.options, 2)
                  \o <<DumpClose(1, "]", TRUE)>>)
         \o DumpSummary(res.summary)
         \o <<DumpClose(0, "}", FALSE)>>

\* Formatted, if every format were written as the table.
Formatted_TableOnly(res, fmt, filename) == _format_as_table(res, filename)

\* The output text of output_results (lines 360-365).
Formatted(res, fmt, filename) ==
    IF fmt = "json" THEN json_dumps(res, filename)
    ELSE IF fmt = "csv" THEN _format_as_csv(res)
    ELSE _format_as_table(res, filename)

-----------------------------------------------------------------------------
(* main: one run of the program from the parsed command line to its exit. *)

Path(text) == [path |-> text]

\* possible_paths, below the project root
PossiblePaths == <<"build/release/bin/bsm_enhanced.exe", "build/release/bin/bsm.exe",
                   "build/bin/bsm_enhanced.exe", "build/bin/bsm.exe">>

\* _find_bsm_executable when exactly the paths of present exist.
_find_bsm_executable(present) ==
    LET found == {k \in 1..Len(PossiblePaths) : PossiblePaths[k] \in present}
    IN  IF found = {} THEN Raised("FileNotFoundError")
        ELSE Path(PossiblePaths[CHOOSE k \in found : \A n \in found : k <= n])

\* "bsm_executable or self._find_bsm_executable()"
ChosenExecutable(given, present) ==
    IF given # NoneVal /\ given.path # "" THEN given ELSE _find_bsm_executable(present)

CustomPath == "tools/bsm"

\* --bsm-executable and the executables that exist on disk.
Installations ==
    {[given |-> NoneVal, present |-> {}],
     [given |-> NoneVal, present |-> {"build/bin/bsm.exe"}],
     [given |-> NoneVal, present |-> {"build/release/bin/bsm.exe", "build/bin/bsm.exe"}],
     [given |-> Path(CustomPath), present |-> {CustomPath}],
     [given |-> Path(CustomPath), present |-> {}],
     [given |-> Path(CustomPath), present |-> {"build/bin/bsm.exe"}]}

\* The CSV files of a run: every file of at most one data row; NoneVal is a
\* csv_file that does not exist.
RunFiles == PortfolioFiles(1) \cup ChainFiles(1) \cup {NoneVal}

RunInit ==
    /\ pc = "main"
    /\ file \in RunFiles
    /\ today = ParseToday
    /\ \E inst \in Installations : bsm_arg = inst.given /\ existing = inst.present
    /\ output_format \in {"table", "json", "csv"}
    /\ spot_arg \in {NoneVal, Hundred}
    /\ spot_price = spot_arg
    /\ rate = Rat(5, 100)
    /\ expiry_days = NoneVal /\ exc = NoneVal /\ bsm_executable = NoneVal
    /\ printed = NoneVal /\ exit_status = NoneVal /\ log = <<>>
    /\ format_type = NoneVal /\ options = <<>>
    /\ i = 0 /\ calls = <<>> /\ procs = <<>> /\ proc = NoneVal
    /\ calculation = NoneVal /\ results = <<>> /\ summary = NoneVal /\ report = NoneVal

\* "if not os.path.exists(args.csv_file)": message and sys.exit(1)
CsvFileMissing ==
    /\ pc = "main"
    /\ file = NoneVal
    /\ printed' = [to |-> "stdout", lines |-> <<<<Lit("Error: File not found")>>>>]
    /\ exit_status' = 1
    /\ pc' = "exit"
    /\ UNCHANGED <<pipeVars, file, today, expiry_days, exc, bsm_arg, existing,
                   bsm_executable, output_format, log>>

\* analyzer = OptionPricingAnalyzer(args.bsm_executable)
Construct ==
    /\ pc = "main"
    /\ file # NoneVal
    /\ LET chosen == ChosenExecutable(bsm_arg, existing)
       IN  IF Has(chosen, "raised")
           THEN /\ exc' = chosen
                /\ pc' = "raised"
                /\ UNCHANGED bsm_executable
           ELSE /\ bsm_executable' = chosen
                /\ pc' = "parse_call"
                /\ UNCHANGED exc
    /\ log' = Append(log, "init")
    /\ UNCHANGED <<pipeVars, file, today, expiry_days, bsm_arg, existing, output_format,
                   printed, exit_status>>

\* subprocess.run returns or times out: the executable can be started.
OracleRuns ==
    /\ pc = "oracle"
    /\ bsm_executable.path \in existing
    /\ Complete

\* subprocess.run raises FileNotFoundError, which calculate_option_price and
\* analyze_csv let through.
OracleMissing ==
    /\ pc = "oracle"
    /\ bsm_executable.path \notin existing
    /\ exc' = Raised("FileNotFoundError")
    /\ pc' = "raised"
    /\ log' = Append(log, "oracle")
    /\ UNCHANGED <<pipeVars, file, today, expiry_days, bsm_arg, existing, bsm_executable,
                   output_format, printed, exit_status>>

\* "except Exception as e": message and sys.exit(1)
HandleException ==
    /\ pc = "raised"
    /\ printed' = [to |-> "stdout", lines |-> <<<<Lit("Error: "), exc>>>>]
    /\ exit_status' = 1
    /\ pc' = "exit"
    /\ UNCHANGED <<pipeVars, file, today, expiry_days, exc, bsm_arg, existing,
                   bsm_executable, output_format, log>>

\* analyzer.output_results(results, args.output, args.file), and main returns.
OutputResults ==
    /\ pc = "done"
    /\ \E output_file \in {"", "results.out"} :
         printed' = [to |-> IF output_file # "" THEN output_file ELSE "stdout",
                     lines |-> Formatted(report, output_format, Join(file.name.text))]
    /\ exit_status' = 0
    /\ pc' = "exit"
    /\ UNCHANGED <<pipeVars, file, today, expiry_days, exc, bsm_arg, existing,
                   bsm_executable, output_format, log>>

RunNext ==
    \/ CsvFileMissing \/ Construct
    \/ ParsePortfolio \/ ParseChain
    \/ NoValidOptions \/ ResolveSpot \/ Dispatch \/ OracleRuns \/ OracleMissing
    \/ Summarise
    \/ OutputResults \/ HandleException

SpecRun == RunInit /\ [][RunNext]_vars

-----------------------------------------------------------------------------
(* Claims about a run. *)

Logged(event) == \E k \in 1..Len(log) : log[k] = event
ParserRan == Logged("parse") \/ Logged("parse_raised")

\* The parser was the last thing to happen outside analyze_csv's own steps,
\* and it returned the empty list.
EmptyParse == log # <<>> /\ log[Len(log)] = "parse" /\ options = <<>>

\* C13: when the selected parser returns no option, analyze_csv returns the
\* error object 'No valid options found in CSV file' as a value: nothing is
\* raised, no oracle call is made, the spot price is left as passed and no
\* summary is built.
C13_EmptyParseGivesErrorReport ==
    EmptyParse =>
        /\ pc \in {"analyze_csv", "done", "exit"}
        /\ exc = NoneVal
        /\ calls = <<>> /\ procs = <<>> /\ results = <<>>
        /\ spot_price = spot_arg
        /\ summary = NoneVal
        /\ pc # "analyze_csv" =>
              report = [error |-> "No valid options found in CSV file"]

\* A file whose only row is skipped, run to its end.
C13_Witness ==
    /\ EmptyParse /\ pc = "exit"
    /\ file.rows # <<>>
    /\ report = [error |-> "No valid options found in CSV file"]
    /\ exit_status = 0

CsvWritten ==
    /\ pc = "exit" /\ exit_status = 0
    /\ output_format = "csv"
    /\ Has(report, "options")

Lacks(opt, key) == ~Has(opt, key) \/ opt[key] = NoneVal

\* C14 as stated: the CSV output of a valid report is the header line and one
\* row per result in report order, and a field the result lacks
\* (market_price of a portfolio option, price_difference and
\* price_difference_pct when not computed) is the empty string in its column.
C14_AbsentFieldsEmpty ==
    CsvWritten =>
        /\ Len(printed.lines) = 1 + Len(report.options)
        /\ printed.lines[1] = CsvHeader
        /\ \A k \in 1..Len(report.options) :
              LET opt == report.options[k]
                  row == printed.lines[k + 1]
              IN  /\ Len(row) = Len(CsvHeader)
                  /\ row[2] = Lit(opt.option_type)
                  /\ row[3] = [str |-> opt.strike]
                  /\ row[6] = IF Lacks(opt, "market_price") THEN Empty
                              ELSE [str |-> opt.market_price]
                  /\ row[8] = IF Lacks(opt, "price_difference") THEN Empty
                              ELSE [str |-> opt.price_difference]
                  /\ row[9] = IF Lacks(opt, "price_difference_pct") THEN Empty
                              ELSE [str |-> opt.price_difference_pct]

\* What holds of C14: one header line, one row of fourteen cells per result in
\* report order; price_difference and price_difference_pct are empty when
\* not computed.
C14_OneRowPerResult ==
    CsvWritten =>
        /\ Len(printed.lines) = 1 + Len(report.options)
        /\ printed.lines[1] = CsvHeader
        /\ \A k \in 1..Len(report.options) :
              LET opt == report.options[k]
                  row == printed.lines[k + 1]
              IN  /\ Len(row) = Len(CsvHeader)
                  /\ row[2] = Lit(opt.option_type)
                  /\ row[3] = [str |-> opt.strike]
                  /\ row[8] = IF Lacks(opt, "price_difference") THEN Empty
                              ELSE [str |-> opt.price_difference]
                  /\ row[9] = IF Lacks(opt, "price_difference_pct") THEN Empty
                              ELSE [str |-> opt.price_difference_pct]

\* A portfolio option written as CSV: its market_price cell reads 'None'.
C14_NoneWritten ==
    /\ CsvWritten
    /\ report.options # <<>>
    /\ printed.lines[2][6] = Lit("None")

ErrorReport == report # NoneVal /\ Has(report, "error")

\* C15 as stated: an error report is written as a single error line in each
\* of the formats table, json and csv, and formatting it never raises.
C15_SingleErrorLine ==
    ErrorReport =>
        /\ pc \in {"done", "exit"} /\ exc = NoneVal
        /\ pc = "exit" => exit_status = 0 /\ Len(printed.lines) = 1

\* C15 amended: table and csv write the single line 'Error: <message>' and
\* 'Error,<message>'; json writes the error object over three lines ('{', the
\* member "error", '}'); formatting never raises.
C15_ErrorLinePerFormat ==
    ErrorReport =>
        /\ pc \in {"done", "exit"} /\ exc = NoneVal
        /\ pc = "exit" =>
              /\ exit_status = 0
              /\ printed.lines =
                    CASE output_format = "table" -> <<<<Lit("Error: " \o report.error)>>>>
                      [] output_format = "csv" -> <<<<Lit("Error"), Lit(report.error)>>>>
                      [] output_format = "json" ->
                            <<[indent |-> 0, key |-> "", open |-> "{"],
                              [indent |-> 2, key |-> "error",
                               value |-> [json |-> report.error], comma |-> FALSE],
                              [indent |-> 0, close |-> "}", comma |-> FALSE]>>

\* The error report written as JSON: three lines.
C15_Witness ==
    /\ ErrorReport /\ pc = "exit"
    /\ output_format = "json"
    /\ Len(printed.lines) = 3

\* No executable for the oracle: none of the conventional paths exists when
\* --bsm-executable is not given, or the given path does not exist.
OracleExecutableMissing ==
    IF bsm_arg = NoneVal
    THEN \A k \in 1..Len(PossiblePaths) : PossiblePaths[k] \notin existing
    ELSE bsm_arg.path \notin existing

\* C16 as stated: a run without an oracle executable never reaches format
\* detection or a parser, and it exits with a non-zero status.
C16_MissingOracleAbortsBeforeParsing ==
    OracleExecutableMissing =>
        /\ ~ParserRan
        /\ pc = "exit" => exit_status # 0

\* What holds of C16: without --bsm-executable and without a conventional
\* build path the run exits with status 1 before any parsing.
C16_AutoDetectAbortsBeforeParsing ==
    OracleExecutableMissing /\ bsm_arg = NoneVal =>
        /\ ~ParserRan
        /\ pc = "exit" => exit_status = 1

\* --bsm-executable names a missing file: the parser runs, and the run
\* aborts at the first oracle call.
C16_AbortAfterParsing ==
    /\ OracleExecutableMissing /\ pc = "exit"
    /\ log = <<"init", "parse", "oracle">>
    /\ exit_status = 1

\* --bsm-executable names a missing file and the CSV file holds no option:
\* the run ends with status 0.
C16_MissingOracleExitZero ==
    /\ OracleExecutableMissing /\ pc = "exit"
    /\ exit_status = 0

====
